---- MODULE Spec2Model ----
(***************************************************************************)
(* A model of ic-kit's mock execution engine: MockContext (src/src/mock.rs) *)
(* and the call handlers Method, RawHandler and Canister                    *)
(* (src/src/handler.rs).                                                    *)
(*                                                                          *)
(* A panic ends the test that owns the context: the model records the      *)
(* message in `panicked`, keeps the fields as they were at the panic, and   *)
(* takes no further step.                                                   *)
(*                                                                          *)
(* u64 arithmetic is the arithmetic of the test profile the harness runs    *)
(* under (overflow checks on): an addition that exceeds U64_MAX or a        *)
(* subtraction below zero panics.  U64_MAX stands for u64::MAX, scaled to   *)
(* the integers TLC can hold.                                               *)
(***************************************************************************)
EXTENDS Integers, Sequences, FiniteSets, TLC

VARIABLES
    ctx,        \* the injected MockContext (all of its fields, handlers included)
    last,       \* the operation invoked last on ctx, its arguments and what it returned
    panicked,   \* "none", or the message of the panic that ended the test
    hist,       \* what the test did so far: outbound calls completed (in all, and since
                \* the last watch()), the caller it configured last, the type tags
                \* whose slot it touched mutably since the last watch(), the
                \* values it stored last in stable storage, the payload it
                \* certified last, the operations it invoked (how many, and which
                \* since the last watch()), the balance its context started with
                \* and the one its Canister was installed with, the cycles
                \* msg_cycles_accept returned to it in all, the refund of the
                \* outbound call that completed last, and the time the clock
                \* showed when it was read last
    building    \* the handler a test is constructing (Some), before with_handler
                \* moves it into ctx, or the WsConnections it sends through
                \* (Some); None otherwise

vars == <<ctx, last, panicked, hist, building>>

----------------------------------------------------------------------------
(* Bounds of the model *)

\* the largest amount of cycles drawn as an input
MaxCycles == 2
\* outbound calls completed by one test before the model stops calling
MaxCalls == 2
\* stand-in for u64::MAX
U64_MAX == 1000

\* MockContext::new's balance (100_000_000_000_000 in the source), scaled like U64_MAX
DefaultBalance == 100

Amounts == 0 .. MaxCycles

----------------------------------------------------------------------------
(* Values *)

None == <<>>
Some(v) == <<v>>
is_some(o) == Len(o) = 1
unwrap(o) == o[1]

Anonymous == "anonymous"
DefaultId == "sgymv-uiaaa-aaaaa-aaaia-cai"
ManagementCanister == "aaaaa-aa"
Bob == "ai7t5-aibaq-aaaaa-aaaaa-c"
John == "hozae-racaq-aaaaa-aaaaa-c"

NoPanic == "none"
OverflowAdd == "attempt to add with overflow"
OverflowSub == "attempt to subtract with overflow"

\* a + b does not fit in a u64
AddOverflows(a, b) == a > U64_MAX - b

\* encode_args(()) : the Candid encoding of the empty tuple, "DIDL" 0 0
EncodeUnit == <<68, 73, 68, 76, 0, 0>>

Ok(v) == [ok |-> TRUE, v |-> v]
Err(code) == [ok |-> FALSE, v |-> <<code>>]

----------------------------------------------------------------------------
(* Watcher *)

WatcherDefault ==
    [ called_id |-> FALSE,
      called_time |-> FALSE,
      called_balance |-> FALSE,
      called_caller |-> FALSE,
      called_msg_cycles_available |-> FALSE,
      called_msg_cycles_accept |-> FALSE,
      called_msg_cycles_refunded |-> FALSE,
      called_stable_store |-> FALSE,
      called_stable_restore |-> FALSE,
      called_set_certified_data |-> FALSE,
      called_data_certificate |-> FALSE,
      storage_modified |-> {},
      calls |-> <<>> ]

WatcherCall(canister_id, method_name, args_raw, cycles_sent, cycles_refunded) ==
    [ canister_id |-> canister_id,
      method_name |-> method_name,
      args_raw |-> args_raw,
      cycles_sent |-> cycles_sent,
      cycles_refunded |-> cycles_refunded ]

\* faulty variant: the call is put in front of the history
record_call_front(w, call) == [w EXCEPT !.calls = <<call>> \o @]

record_call(w, call) == [w EXCEPT !.calls = Append(@, call)]

call_count(w) == Len(w.calls)

get_call(w, n) == w.calls[n + 1]

\* what a query of the Watcher returns, or the panic it raises
Value(v) == [ret |-> v, panic |-> NoPanic]
Abort(msg) == [ret |-> 0, panic |-> msg]

\* `self.cycles_sent - self.cycles_refunded`
WatcherCall_cycles_consumed(call) ==
    IF call.cycles_refunded > call.cycles_sent
    THEN Abort(OverflowSub)
    ELSE Value(call.cycles_sent - call.cycles_refunded)

WatcherCall_cycles_sent(call) == Value(call.cycles_sent)

WatcherCall_cycles_refunded(call) == Value(call.cycles_refunded)

\* `result += ...` over the amounts from the k-th on, `acc` the result so far
RECURSIVE accumulate(_, _, _)
accumulate(amounts, k, acc) ==
    IF acc.panic # NoPanic \/ k > Len(amounts) THEN acc
    ELSE accumulate(amounts, k + 1,
             IF amounts[k].panic # NoPanic THEN amounts[k]
             ELSE IF AddOverflows(acc.ret, amounts[k].ret) THEN Abort(OverflowAdd)
             ELSE Value(acc.ret + amounts[k].ret))

Watcher_cycles_consumed(w) ==
    accumulate([k \in 1 .. Len(w.calls) |-> WatcherCall_cycles_consumed(w.calls[k])],
               1, Value(0))

Watcher_cycles_refunded(w) ==
    accumulate([k \in 1 .. Len(w.calls) |-> WatcherCall_cycles_refunded(w.calls[k])],
               1, Value(0))

Watcher_cycles_sent(w) ==
    accumulate([k \in 1 .. Len(w.calls) |-> WatcherCall_cycles_sent(w.calls[k])],
               1, Value(0))

----------------------------------------------------------------------------
(* MockContext: construction and the builder *)

MockContextNew ==
    [ watcher |-> WatcherDefault,
      id |-> DefaultId,
      balance |-> DefaultBalance,
      caller |-> Anonymous,
      is_reply_callback_mode |-> FALSE,
      trapped |-> FALSE,
      cycles |-> 0,
      cycles_refunded |-> 0,
      storage |-> <<>>,
      stable |-> <<>>,
      certified_data |-> None,
      certificate |-> None,
      handlers |-> <<>> ]

with_id(c, id) == [c EXCEPT !.id = id]

with_balance(c, cycles) == [c EXCEPT !.balance = cycles]

with_caller(c, caller) == [c EXCEPT !.caller = caller]

with_msg_cycles(c, cycles) == [c EXCEPT !.cycles = cycles]

with_handler(c, handler) == [c EXCEPT !.handlers = Append(@, handler)]

\* faulty variant: the flags and the marks are reset, the calls are kept
watch_keeping_calls(c) == [c EXCEPT !.watcher = [WatcherDefault EXCEPT !.calls = c.watcher.calls]]

watch(c) == [c EXCEPT !.watcher = WatcherDefault]

call_state_reset(c) == [c EXCEPT !.is_reply_callback_mode = FALSE, !.trapped = FALSE]

update_balance(c, cycles) == [c EXCEPT !.balance = cycles]

update_msg_cycles(c, cycles) == [c EXCEPT !.cycles = cycles]

update_caller(c, caller) == [c EXCEPT !.caller = caller]

----------------------------------------------------------------------------
(* MockContext: the Context operations.  Each returns the context after    *)
(* the operation, the value returned and the panic raised ("none" if none). *)

Ret(c, ret) == [ctx |-> c, ret |-> ret, panic |-> NoPanic]
Panic(c, msg) == [ctx |-> c, ret |-> 0, panic |-> msg]

id(c) == Ret([c EXCEPT !.watcher.called_id = TRUE], c.id)

balance(c) == Ret([c EXCEPT !.watcher.called_balance = TRUE], c.balance)

\* faulty variant: the reply-callback mode is not looked at
caller_unchecked(c) == Ret([c EXCEPT !.watcher.called_caller = TRUE], c.caller)

\* the panic message is built with self.id(), which marks called_id
caller(c) ==
    LET w == [c EXCEPT !.watcher.called_caller = TRUE] IN
    IF w.is_reply_callback_mode
    THEN Panic(id(w).ctx, "ic0_msg_caller_size cannot be executed in reply callback mode")
    ELSE Ret(w, w.caller)

msg_cycles_available(c) ==
    Ret([c EXCEPT !.watcher.called_msg_cycles_available = TRUE], c.cycles)

\* faulty variant: the amount asked for is credited, not the amount taken
msg_cycles_accept_unclamped(c, cycles) ==
    Ret([c EXCEPT !.watcher.called_msg_cycles_accept = TRUE,
                  !.cycles = IF cycles > @ THEN 0 ELSE @ - cycles,
                  !.balance = @ + cycles],
        IF cycles > c.cycles THEN c.cycles ELSE cycles)

msg_cycles_accept(c, cycles) ==
    LET w == [c EXCEPT !.watcher.called_msg_cycles_accept = TRUE] IN
    IF cycles > w.cycles
    THEN LET r == w.cycles
             z == [w EXCEPT !.cycles = 0] IN
         IF AddOverflows(z.balance, r)
         THEN Panic(z, OverflowAdd)
         ELSE Ret([z EXCEPT !.balance = @ + r], r)
    ELSE LET z == [w EXCEPT !.cycles = @ - cycles] IN
         IF AddOverflows(z.balance, cycles)
         THEN Panic(z, OverflowAdd)
         ELSE Ret([z EXCEPT !.balance = @ + cycles], cycles)

\* faulty variant: the read leaves no trace in the Watcher
msg_cycles_refunded_unseen(c) == Ret(c, c.cycles_refunded)

msg_cycles_refunded(c) ==
    Ret([c EXCEPT !.watcher.called_msg_cycles_refunded = TRUE], c.cycles_refunded)

----------------------------------------------------------------------------
(* Typed storage: BTreeMap<TypeId, Box<dyn Any>> as a function from the     *)
(* type tags that have a slot to the value in the slot.                     *)

U64 == "u64"
String == "String"
TypeIds == {U64, String}

\* T::default()
Default(T) == IF T = U64 THEN 0 ELSE ""

\* the map without the entry of T
Removed(storage, T) == [t \in DOMAIN storage \ {T} |-> storage[t]]

\* faulty variant: the default value is inserted over the value in the slot
insert_default(storage, T) == (T :> Default(T)) @@ Removed(storage, T)

\* `.entry(type_id).or_insert_with(|| Box::new(T::default()))`
or_insert_default(storage, T) ==
    IF T \in DOMAIN storage THEN storage ELSE (T :> Default(T)) @@ storage

with_data(c, T, data) == [c EXCEPT !.storage = (T :> data) @@ Removed(@, T)]

clear_storage(c) == [c EXCEPT !.storage = <<>>]

store(c, T, data) ==
    Ret([c EXCEPT !.watcher.storage_modified = @ \cup {T},
                  !.storage = (T :> data) @@ Removed(@, T)], <<>>)

get(c, T) ==
    Ret([c EXCEPT !.storage = or_insert_default(@, T)], or_insert_default(c.storage, T)[T])

\* faulty variant: the slot is marked only when it has to be created
get_mut_lazy(c, T) ==
    Ret([c EXCEPT !.watcher.storage_modified =
                      IF T \in DOMAIN c.storage THEN @ ELSE @ \cup {T},
                  !.storage = or_insert_default(@, T)],
        or_insert_default(c.storage, T)[T])

\* the value returned stands for the &mut T: the slot it points to
get_mut(c, T) ==
    Ret([c EXCEPT !.watcher.storage_modified = @ \cup {T},
                  !.storage = or_insert_default(@, T)],
        or_insert_default(c.storage, T)[T])

\* `*r = data` on the reference get_mut::<T>() returned
write(c, T, data) == [c EXCEPT !.storage[T] = data]

\* faulty variant: the answer is whether the slot is gone, which it always is
delete_gone(c, T) ==
    Ret([c EXCEPT !.watcher.storage_modified = @ \cup {T},
                  !.storage = Removed(@, T)],
        T \notin DOMAIN Removed(c.storage, T))

delete(c, T) ==
    Ret([c EXCEPT !.watcher.storage_modified = @ \cup {T},
                  !.storage = Removed(@, T)],
        T \in DOMAIN c.storage)

is_modified(w, T) == T \in w.storage_modified

----------------------------------------------------------------------------
(* Stable storage.  A value is a record [type, v] of a Candid primitive     *)
(* type (nat8 or bool, v the byte that encodes it); a tuple of values is a *)
(* sequence.  encode_args writes the magic "DIDL", an empty type table, the *)
(* number of values, their type codes and their bytes; the deserializer    *)
(* reads the header and then one value for each type it is asked for.      *)

Nat8 == "nat8"
Bool == "bool"

\* the type codes of Candid, as the byte of their SLEB128 encoding
TypeCode(T) == IF T = Nat8 THEN 123 ELSE 126

Magic == <<68, 73, 68, 76>>

encode_args(data) ==
    Magic \o <<0, Len(data)>>
          \o [i \in 1 .. Len(data) |-> TypeCode(data[i].type)]
          \o [i \in 1 .. Len(data) |-> data[i].v]

\* IDLDeserialize::new: the header is there and well formed
HasHeader(bytes) ==
    /\ Len(bytes) >= 6
    /\ SubSeq(bytes, 1, 4) = Magic
    /\ bytes[5] = 0
    /\ Len(bytes) = 6 + 2 * bytes[6]

\* the i-th value on the wire can be read as a T
Readable(bytes, i, T) == i <= bytes[6] /\ bytes[6 + i] = TypeCode(T)

\* faulty variant: the values left on the wire (`de.done()`) are an error
decode_args_done(bytes, types) ==
    IF ~HasHeader(bytes) THEN Err(1)
    ELSE IF \E i \in 1 .. Len(types) : ~Readable(bytes, i, types[i]) THEN Err(2)
    ELSE IF Len(types) < bytes[6] THEN Err(3)
    ELSE Ok([i \in 1 .. Len(types) |-> [type |-> types[i], v |-> bytes[6 + bytes[6] + i]]])

\* IDLDeserialize::new, ArgumentDecoder::decode for the tuple of `types`, and the
\* result of `de.done()` dropped
decode_args(bytes, types) ==
    IF ~HasHeader(bytes) THEN Err(1)
    ELSE IF \E i \in 1 .. Len(types) : ~Readable(bytes, i, types[i]) THEN Err(2)
    ELSE Ok([i \in 1 .. Len(types) |-> [type |-> types[i], v |-> bytes[6 + bytes[6] + i]]])

stable_store(c, data) ==
    Ret([c EXCEPT !.watcher.called_stable_store = TRUE, !.stable = encode_args(data)],
        Ok(<<>>))

stable_restore(c, types) ==
    Ret([c EXCEPT !.watcher.called_stable_restore = TRUE], decode_args(c.stable, types))

with_stable(c, data) == stable_store(c, data).ctx

----------------------------------------------------------------------------
(* Certified data.  A payload is a sequence of bytes.  sign pads it with    *)
(* zeros to 32 bytes and emits 32 blocks; block i is DefaultHasher's digest *)
(* of the blocks before it followed by byte i, hence a function of the      *)
(* first i bytes of the padded payload: the model keeps the digest as the   *)
(* term [digest_of |-> those bytes].                                        *)

\* the size of the certified-data slot: `if data.len() > 32`
CertifiedDataMax == 32

\* `vec![0; 32]` with the payload copied over its beginning
Padded(data) == [i \in 1 .. CertifiedDataMax |-> IF i <= Len(data) THEN data[i] ELSE 0]

Digest(bytes) == [digest_of |-> bytes]

sign(data) == [i \in 1 .. CertifiedDataMax |-> Digest(SubSeq(Padded(data), 1, i))]

\* `assert!(data.len() < 32)`
with_certified_data(c, data) ==
    IF ~(Len(data) < CertifiedDataMax)
    THEN Panic(c, "assertion failed: data.len() < 32")
    ELSE Ret([c EXCEPT !.certificate = Some(sign(data)), !.certified_data = Some(data)],
             <<>>)

get_certified_data(c) == Ret(c, c.certified_data)

\* faulty variant: the payload is replaced, the certificate of the old one is kept
set_certified_data_stale(c, data) ==
    IF Len(data) > CertifiedDataMax
    THEN Panic(c, "Data certificate has more than 32 bytes.")
    ELSE Ret([c EXCEPT !.watcher.called_set_certified_data = TRUE,
                       !.certificate = IF is_some(@) THEN @ ELSE Some(sign(data)),
                       !.certified_data = Some(data)],
             <<>>)

set_certified_data(c, data) ==
    IF Len(data) > CertifiedDataMax
    THEN Panic(c, "Data certificate has more than 32 bytes.")
    ELSE Ret([c EXCEPT !.watcher.called_set_certified_data = TRUE,
                       !.certificate = Some(sign(data)),
                       !.certified_data = Some(data)],
             <<>>)

data_certificate(c) ==
    Ret([c EXCEPT !.watcher.called_data_certificate = TRUE], c.certificate)

----------------------------------------------------------------------------
(* WsConnections (ic-kit-ws/src/connections.rs): the log of the messages    *)
(* sent to the connections, one bucket per block.  The VecDeque is the      *)
(* sequence from its front (index 1) to its back.  A tree maps the          *)
(* connection ids that have messages to the sequence of their messages; a   *)
(* message is a sequence of bytes.  A digest is kept as a term over what    *)
(* was fed to the hasher; of its 32 bytes the last one holds the term and   *)
(* the others their position.                                                *)

\* `const MAX_BLOCK_HEIGHT: usize = 32`
MAX_BLOCK_HEIGHT == 32

\* `const BLOCK_PERIOD_SECONDS: usize = 3`
BLOCK_PERIOD_SECONDS == 3

\* MockContext::time: the clock is read and the read is flagged
time(c, now) == Ret([c EXCEPT !.watcher.called_time = TRUE], now)

get_current_block_id(now) ==
    ((now \div 1000000) \div BLOCK_PERIOD_SECONDS) * BLOCK_PERIOD_SECONDS

\* AsHashTree::root_hash of a tree
root_hash(tree) == [root_hash_of |-> tree]

\* the digest of what was fed to a Sha256 hasher, as 32 bytes
Sha256(input) == [i \in 1 .. 32 |-> IF i < 32 THEN i ELSE [sha256_of |-> input]]

\* what recompute_hash feeds to the hasher: the block id and the root hash of each
\* bucket, from the front to the back
fed(connections) ==
    [k \in 1 .. Len(connections) |->
       <<connections[k].block_id, root_hash(connections[k].tree)>>]

\* recompute_hash, on the WsConnections; it then certifies the hash
recompute_hash(ws) == [ws EXCEPT !.hash = Sha256(fed(ws.connections))]

MapDefault == <<>>

WsConnectionsNew == recompute_hash([connections |-> <<>>, hash |-> [i \in 1 .. 32 |-> 0]])

push_front(connections, bucket) == <<bucket>> \o connections

\* faulty variant: the bucket at the front goes
pop_front(connections) == SubSeq(connections, 2, Len(connections))

pop_back(connections) == SubSeq(connections, 1, Len(connections) - 1)

\* `.entry(connection_id.0).or_default().append(message)` on a tree
append(tree, connection_id, message) ==
    IF connection_id \in DOMAIN tree
    THEN [tree EXCEPT ![connection_id] = Append(@, message)]
    ELSE [c \in DOMAIN tree \cup {connection_id} |->
            IF c = connection_id THEN <<message>> ELSE tree[c]]

\* the log once it has been made sure that there is a bucket for block_id
ensured(connections, block_id) ==
    IF Len(connections) = 0 \/ connections[Len(connections)].block_id # block_id
    THEN push_front(IF Len(connections) = MAX_BLOCK_HEIGHT
                    THEN pop_back(connections) ELSE connections,
                    [block_id |-> block_id, tree |-> MapDefault])
    ELSE connections

RECURSIVE appended(_, _, _)
\* the loop over the messages, from message k on
appended(connections, messages, k) ==
    IF k > Len(messages) THEN connections
    ELSE appended([connections EXCEPT ![Len(connections)].tree =
                       append(@, messages[k].connection_id, messages[k].message)],
                  messages, k + 1)

\* send_raw, on the WsConnections, in the block block_id
send_raw(ws, block_id, messages) ==
    recompute_hash([ws EXCEPT !.connections =
                        appended(ensured(@, block_id), messages, 1)])

----------------------------------------------------------------------------
(* Handlers (handler.rs).  A handler is a record tagged by `kind`.         *)
(*   Method     : name, atoms, expected_args, response                      *)
(*   RawHandler : handler, the closure: the operations it invokes on the    *)
(*                context it is given, in order, and the result it returns  *)
(*   Canister   : id, methods, default, context                             *)
(*   Custom     : a CallHandler the test implements itself: whether it       *)
(*                accepts, and the refund it reports (it leaves the context  *)
(*                it is given alone)                                         *)

ConsumeAllCycles == [atom |-> "ConsumeAllCycles", n |-> 0]
ConsumeCycles(n) == [atom |-> "ConsumeCycles", n |-> n]
RefundCycles(n) == [atom |-> "RefundCycles", n |-> n]

MethodNew ==
    [ kind |-> "Method", name |-> None, atoms |-> <<>>,
      expected_args |-> None, response |-> None ]

name(m, n) == [m EXCEPT !.name = Some(n)]
cycles_consume_all(m) == [m EXCEPT !.atoms = Append(@, ConsumeAllCycles)]
cycles_consume(m, cycles) == [m EXCEPT !.atoms = Append(@, ConsumeCycles(cycles))]
cycles_refund(m, cycles) == [m EXCEPT !.atoms = Append(@, RefundCycles(cycles))]
expect_arguments(m, encoded) == [m EXCEPT !.expected_args = Some(encoded)]
response(m, encoded) == [m EXCEPT !.response = Some(encoded)]

RawHandlerRaw(closure) == [kind |-> "RawHandler", handler |-> closure]

\* a closure: the context operations it invokes and the CallResult it returns
Closure(ops, res) == [ops |-> ops, res |-> res]
OpAccept(n) == [op |-> "msg_cycles_accept", n |-> n]
OpUpdateMsgCycles(n) == [op |-> "update_msg_cycles", n |-> n]
OpCaller == [op |-> "caller", n |-> 0]
OpId == [op |-> "id", n |-> 0]
OpAvailable == [op |-> "msg_cycles_available", n |-> 0]
\* a closure that returns Ok of what its operations returned, in order
Reporting(ops) == [ops |-> ops, res |-> Ok(<<>>), reports |-> TRUE]
Reports(closure) == "reports" \in DOMAIN closure

CustomHandler(accepts, refund) == [kind |-> "Custom", accepts |-> accepts, refund |-> refund]

CanisterNew(cid) ==
    [ kind |-> "Canister", id |-> cid, methods |-> <<>>, default |-> None,
      context |-> with_id(MockContextNew, cid) ]

\* HashMap<String, _> as a function from the registered names
MethodNames(can) == DOMAIN can.methods

Canister_with_balance(can, cycles) ==
    [can EXCEPT !.context = update_balance(@, cycles)]

\* what perform returns: the (CallResult, refund) pair, the handler and the supplied
\* context as the call left them, the panic raised, and the accept / perform
\* invocations made on sub-handlers
Performed(h, c, res, refund, log) ==
    [h |-> h, ctx |-> c, res |-> res, refund |-> refund, panic |-> NoPanic, log |-> log]
PerformPanic(h, c, msg, log) ==
    [h |-> h, ctx |-> c, res |-> Err(0), refund |-> 0, panic |-> msg, log |-> log]

Event(ev, path, ret) == [ev |-> ev, path |-> path, ret |-> ret]
\* the events of a sub-handler, seen from the handler that holds it under `key`
Under(key, log) == [i \in 1 .. Len(log) |-> [log[i] EXCEPT !.path = <<key>> \o @]]

DefaultKey == "<default>"

Method_accept(h, canister_id, method) ==
    IF is_some(h.name) THEN unwrap(h.name) = method ELSE TRUE

RawHandler_accept(h, canister_id, method) == TRUE

Custom_accept(h, canister_id, method) == h.accepts

RECURSIVE accept(_, _, _)

\* faulty variant: a default sub-handler makes the canister accept any target
Canister_accept_loose(h, canister_id, method) ==
    \/ is_some(h.default)
    \/ /\ h.id = canister_id
       /\ IF method \in MethodNames(h)
          THEN accept(h.methods[method], canister_id, method)
          ELSE FALSE

Canister_accept(h, canister_id, method) ==
    /\ h.id = canister_id
    /\ \/ is_some(h.default)
       \/ IF method \in MethodNames(h)
          THEN accept(h.methods[method], canister_id, method)
          ELSE FALSE

accept(h, canister_id, method) ==
    CASE h.kind = "Method" -> Method_accept(h, canister_id, method)
      [] h.kind = "RawHandler" -> RawHandler_accept(h, canister_id, method)
      [] h.kind = "Canister" -> Canister_accept(h, canister_id, method)
      [] h.kind = "Custom" -> Custom_accept(h, canister_id, method)

\* the accept invocations a handler's accept makes on its sub-handlers
RECURSIVE accept_log(_, _, _)
accept_log(h, canister_id, method) ==
    IF /\ h.kind = "Canister"
       /\ h.id = canister_id
       /\ ~is_some(h.default)
       /\ method \in MethodNames(h)
    THEN <<Event("accept", <<method>>, accept(h.methods[method], canister_id, method))>>
         \o Under(method, accept_log(h.methods[method], canister_id, method))
    ELSE <<>>

\* faulty variant: RefundCycles(n) accepts n and hands the rest back
run_atom_swapped(atom, c) ==
    CASE atom.atom = "ConsumeAllCycles" -> msg_cycles_accept(c, U64_MAX)
      [] atom.atom = "ConsumeCycles" -> msg_cycles_accept(c, atom.n)
      [] atom.atom = "RefundCycles" ->
           LET a == msg_cycles_available(c) IN
           IF atom.n > a.ret
           THEN Panic(a.ctx, "Can not refund more cycles than available.")
           ELSE msg_cycles_accept(a.ctx, atom.n)

\* faulty variant: ConsumeAllCycles looks at the cycles and accepts none
run_atom_idle(atom, c) ==
    CASE atom.atom = "ConsumeAllCycles" -> msg_cycles_available(c)
      [] atom.atom = "ConsumeCycles" -> msg_cycles_accept(c, atom.n)
      [] atom.atom = "RefundCycles" ->
           LET a == msg_cycles_available(c) IN
           IF atom.n > a.ret
           THEN Panic(a.ctx, "Can not refund more cycles than available.")
           ELSE msg_cycles_accept(a.ctx, a.ret - atom.n)

\* faulty variant: ConsumeCycles(n) takes everything, like ConsumeAllCycles
run_atom_greedy(atom, c) ==
    CASE atom.atom = "ConsumeAllCycles" -> msg_cycles_accept(c, U64_MAX)
      [] atom.atom = "ConsumeCycles" -> msg_cycles_accept(c, U64_MAX)
      [] atom.atom = "RefundCycles" ->
           LET a == msg_cycles_available(c) IN
           IF atom.n > a.ret
           THEN Panic(a.ctx, "Can not refund more cycles than available.")
           ELSE msg_cycles_accept(a.ctx, a.ret - atom.n)

\* one atom of a Method, run on context c
run_atom(atom, c) ==
    CASE atom.atom = "ConsumeAllCycles" -> msg_cycles_accept(c, U64_MAX)
      [] atom.atom = "ConsumeCycles" -> msg_cycles_accept(c, atom.n)
      [] atom.atom = "RefundCycles" ->
           LET a == msg_cycles_available(c) IN
           IF atom.n > a.ret
           THEN Panic(a.ctx, "Can not refund more cycles than available.")
           ELSE msg_cycles_accept(a.ctx, a.ret - atom.n)

\* the atoms of a Method from the i-th on, run on context c; r is what the atom
\* before them returned
RECURSIVE run_atoms(_, _, _)
run_atoms_from(atoms, i, r) ==
    IF r.panic # NoPanic THEN r ELSE run_atoms(atoms, i, r.ctx)

run_atoms(atoms, i, c) ==
    IF i > Len(atoms) THEN Ret(c, 0)
    ELSE run_atoms_from(atoms, i + 1, run_atom(atoms[i], c))

\* `supplied` is the Option<&mut MockContext>; the context handed back is Some
\* exactly when one was supplied
HandBack(supplied, c) == IF is_some(supplied) THEN Some(c) ELSE None

\* the refund of a handler is what its context still holds when its work is done
Refunding(h, supplied, c, res) ==
    Performed(h, HandBack(supplied, msg_cycles_available(c).ctx), res,
              msg_cycles_available(c).ret, <<>>)

\* Method::perform once the atoms have run (`ran`)
Method_respond(h, supplied, ran) ==
    IF ran.panic # NoPanic
    THEN PerformPanic(h, HandBack(supplied, ran.ctx), ran.panic, <<>>)
    ELSE Refunding(h, supplied, ran.ctx,
                   IF is_some(h.response) THEN Ok(unwrap(h.response)) ELSE Ok(EncodeUnit))

\* faulty variant: the arguments are compared once the atoms have run
Method_perform_late(h, from, cycles, canister_id, method, args_raw, supplied) ==
    IF is_some(h.expected_args) /\ unwrap(h.expected_args) # args_raw
    THEN PerformPanic(h, HandBack(supplied,
                          run_atoms(h.atoms, 1,
                                    IF is_some(supplied) THEN unwrap(supplied)
                                    ELSE with_msg_cycles(MockContextNew, cycles)).ctx),
                      "assertion failed: expected_args == args_raw", <<>>)
    ELSE Method_respond(h, supplied,
             run_atoms(h.atoms, 1,
                       IF is_some(supplied) THEN unwrap(supplied)
                       ELSE with_msg_cycles(MockContextNew, cycles)))

Method_perform(h, from, cycles, canister_id, method, args_raw, supplied) ==
    IF is_some(h.expected_args) /\ unwrap(h.expected_args) # args_raw
    THEN PerformPanic(h, supplied, "assertion failed: expected_args == args_raw", <<>>)
    ELSE Method_respond(h, supplied,
             run_atoms(h.atoms, 1,
                       IF is_some(supplied) THEN unwrap(supplied)
                       ELSE with_msg_cycles(MockContextNew, cycles)))

\* one operation of a closure, invoked on context c
run_closure_op(o, c) ==
    CASE o.op = "msg_cycles_accept" -> msg_cycles_accept(c, o.n)
      [] o.op = "update_msg_cycles" -> Ret(update_msg_cycles(c, o.n), 0)
      [] o.op = "caller" -> caller(c)
      [] o.op = "id" -> id(c)
      [] o.op = "msg_cycles_available" -> msg_cycles_available(c)

\* the operations of a closure from the i-th on, invoked on context c; r is what
\* the operation before them returned
RECURSIVE run_closure(_, _, _)
run_closure_from(ops, i, r) ==
    IF r.panic # NoPanic THEN r ELSE run_closure(ops, i, r.ctx)

run_closure(ops, i, c) ==
    IF i > Len(ops) THEN Ret(c, 0)
    ELSE run_closure_from(ops, i + 1, run_closure_op(ops[i], c))

\* what the operations of a closure from the i-th on return, invoked on context c
RECURSIVE seen(_, _, _)
seen_from(ops, i, r) ==
    IF r.panic # NoPanic THEN <<>> ELSE <<r.ret>> \o seen(ops, i, r.ctx)

seen(ops, i, c) ==
    IF i > Len(ops) THEN <<>>
    ELSE seen_from(ops, i + 1, run_closure_op(ops[i], c))

\* the CallResult of a closure run on context c
closure_result(closure, c) ==
    IF Reports(closure) THEN Ok(seen(closure.ops, 1, c)) ELSE closure.res

\* RawHandler::perform once the closure has run (`ran`) and returned `res`
RawHandler_respond(h, supplied, ran, res) ==
    IF ran.panic # NoPanic
    THEN PerformPanic(h, HandBack(supplied, ran.ctx), ran.panic, <<>>)
    ELSE Refunding(h, supplied, ran.ctx, res)

\* faulty variant: the context made when none is supplied has the caller's
\* identity as its own and the target as its caller
RawHandler_context_swapped(from, cycles, canister_id, supplied) ==
    IF is_some(supplied) THEN unwrap(supplied)
    ELSE with_id(with_msg_cycles(with_caller(MockContextNew, canister_id), cycles), from)

\* `ctx.unwrap_or(&mut default_ctx)`
RawHandler_context(from, cycles, canister_id, supplied) ==
    IF is_some(supplied) THEN unwrap(supplied)
    ELSE with_id(with_msg_cycles(with_caller(MockContextNew, from), cycles), canister_id)

RawHandler_perform(h, from, cycles, canister_id, method, args_raw, supplied) ==
    RawHandler_respond(h, supplied,
        run_closure(h.handler.ops, 1,
                    RawHandler_context(from, cycles, canister_id, supplied)),
        closure_result(h.handler,
                       RawHandler_context(from, cycles, canister_id, supplied)))

\* a handler of the test's own: it reports its refund whatever the context holds
Custom_perform(h, from, cycles, canister_id, method, args_raw, supplied) ==
    Performed(h, supplied, Ok(EncodeUnit), h.refund, <<>>)

\* the owned context as the call enters: its caller and cycles are the call's
Canister_enter(h, from, cycles) ==
    update_msg_cycles(update_caller(h.context, from), cycles)

Canister_key(h, method) == IF method \in MethodNames(h) THEN method ELSE DefaultKey

\* faulty variant: the default is preferred to the method registered under the name
Canister_sub_default_first(h, method) ==
    IF is_some(h.default) THEN unwrap(h.default) ELSE h.methods[method]

\* the sub-handler the call is delegated to: the named method, else the default
Canister_sub(h, method) ==
    IF method \in MethodNames(h) THEN h.methods[method] ELSE unwrap(h.default)

\* faulty variant: the owned context is the one of before the call
Canister_left_forgetful(h, method, r) ==
    IF method \in MethodNames(h) THEN [h EXCEPT !.methods[method] = r.h]
                                  ELSE [h EXCEPT !.default = Some(r.h)]

\* the canister with the sub-handler and the owned context as the delegated call left them
Canister_left(h, method, r) ==
    [ (IF method \in MethodNames(h) THEN [h EXCEPT !.methods[method] = r.h]
                                    ELSE [h EXCEPT !.default = Some(r.h)])
      EXCEPT !.context = unwrap(r.ctx) ]

\* faulty variant: the refund reported is not compared with the owned context
Canister_settle_unchecked(h, log, r) ==
    IF r.panic # NoPanic
    THEN PerformPanic(h, None, r.panic, log)
    ELSE Performed([h EXCEPT !.context = update_msg_cycles(msg_cycles_available(@).ctx, 0)],
                   None, r.res, r.refund, log)

\* Canister::perform once the sub-handler has performed (`r`): the refund it
\* reported must be what the owned context holds, which is then zeroed
Canister_settle(h, log, r) ==
    IF r.panic # NoPanic
    THEN PerformPanic(h, None, r.panic, log)
    ELSE IF r.refund # msg_cycles_available(h.context).ret
         THEN PerformPanic([h EXCEPT !.context = msg_cycles_available(@).ctx], None,
                           "assertion failed: res.1 == ctx.msg_cycles_available()", log)
         ELSE Performed([h EXCEPT !.context =
                             update_msg_cycles(msg_cycles_available(@).ctx, 0)],
                        None, r.res, r.refund, log)

Canister_delegated(h, method, r) ==
    Canister_settle(Canister_left(h, method, r),
                    <<Event("perform", <<Canister_key(h, method)>>, TRUE)>>
                        \o Under(Canister_key(h, method), r.log),
                    r)

RECURSIVE perform(_, _, _, _, _, _, _)
\* faulty variant: a supplied context is not refused, the owned one is used
Canister_perform_nested(h, from, cycles, canister_id, method, args_raw, supplied) ==
    IF method \notin MethodNames(h) /\ ~is_some(h.default)
    THEN PerformPanic([h EXCEPT !.context = Canister_enter(h, from, cycles)], supplied,
                      "called Option::unwrap() on a None value", <<>>)
    ELSE [ Canister_delegated(h, method,
               perform(Canister_sub(h, method), from, cycles, canister_id, method,
                       args_raw, Some(Canister_enter(h, from, cycles))))
           EXCEPT !.ctx = supplied ]

Canister_perform(h, from, cycles, canister_id, method, args_raw, supplied) ==
    IF is_some(supplied)
    THEN PerformPanic(h, supplied, "assertion failed: ctx.is_none()", <<>>)
    ELSE IF method \notin MethodNames(h) /\ ~is_some(h.default)
         THEN PerformPanic([h EXCEPT !.context = Canister_enter(h, from, cycles)], None,
                           "called Option::unwrap() on a None value", <<>>)
         ELSE Canister_delegated(h, method,
                  perform(Canister_sub(h, method), from, cycles, canister_id, method,
                          args_raw, Some(Canister_enter(h, from, cycles))))

perform(h, from, cycles, canister_id, method, args_raw, supplied) ==
    CASE h.kind = "Method" ->
           Method_perform(h, from, cycles, canister_id, method, args_raw, supplied)
      [] h.kind = "RawHandler" ->
           RawHandler_perform(h, from, cycles, canister_id, method, args_raw, supplied)
      [] h.kind = "Canister" ->
           Canister_perform(h, from, cycles, canister_id, method, args_raw, supplied)
      [] h.kind = "Custom" ->
           Custom_perform(h, from, cycles, canister_id, method, args_raw, supplied)

----------------------------------------------------------------------------
(* MockContext::call_raw *)

InsufficientCycles == "Calling canister with more cycles than there are available."
NoHandlerFound == "No handler found to handle the data."

\* an accept or perform invocation made by call_raw on handler i of the chain
\* (path <<>>) or, below it, on the sub-handler reached by `path`
At(i, log) == [k \in 1 .. Len(log) |-> [idx |-> i] @@ log[k]]

Called(c, res, refunded, log, performer) ==
    [ ctx |-> c, ret |-> res, refunded |-> refunded, panic |-> NoPanic,
      log |-> log, performer |-> performer ]
CallPanic(c, msg, log, performer) ==
    [ ctx |-> c, ret |-> Err(0), refunded |-> 0, panic |-> msg,
      log |-> log, performer |-> performer ]

NoPerformer == 0 - 1

\* faulty variant: a call of the whole balance is refused too
insufficient_strict(c, cycles) == cycles >= c.balance

\* `if cycles > self.balance`
insufficient(c, cycles) == cycles > c.balance

\* faulty variant: the reservation does not enter reply-callback mode
reserve_without_mode(c, cycles) == [c EXCEPT !.balance = @ - cycles]

\* the reservation: the cycles leave the balance, the context enters reply-callback mode
reserve(c, cycles) ==
    [c EXCEPT !.balance = @ - cycles, !.is_reply_callback_mode = TRUE]

\* faulty variant: the last handler of the chain is never tried
exhausted_early(c, i) == i + 1 >= Len(c.handlers)

\* `if i == self.handlers.len()`
exhausted(c, i) == i = Len(c.handlers)

\* faulty variant: the refund is remembered but not credited
credit_refund_forgetful(c, refunded) == [c EXCEPT !.cycles_refunded = refunded]

\* the refund is remembered and credited (the caller checks the addition fits)
credit_refund(c, refunded) ==
    [c EXCEPT !.cycles_refunded = refunded, !.balance = @ + refunded]

\* handler i accepted: what its perform (`r`) makes of the call
call_raw_performed(c, i, log, r) ==
    IF r.panic # NoPanic
    THEN CallPanic([c EXCEPT !.handlers[i + 1] = r.h], r.panic,
                   log \o At(i, <<Event("perform", <<>>, TRUE)>> \o r.log), i)
    ELSE Called([c EXCEPT !.handlers[i + 1] = r.h], r.res, r.refund,
                log \o At(i, <<Event("perform", <<>>, TRUE)>> \o r.log), i)

\* faulty variant: the handler performs whether it accepted or not
call_raw_try_any(c, i, cid, method, args_raw, cycles, log, accepted) ==
    call_raw_performed(c, i, log,
        perform(c.handlers[i + 1], c.id, cycles, cid, method, args_raw, None))

\* the loop of call_raw from handler i on: the first handler that accepts performs
RECURSIVE call_raw_loop(_, _, _, _, _, _, _)
call_raw_try(c, i, cid, method, args_raw, cycles, log, accepted) ==
    IF accepted
    THEN call_raw_performed(c, i, log,
             perform(c.handlers[i + 1], c.id, cycles, cid, method, args_raw, None))
    ELSE call_raw_loop(c, i + 1, cid, method, args_raw, cycles, log)

call_raw_loop(c, i, cid, method, args_raw, cycles, log) ==
    IF exhausted(c, i)
    THEN CallPanic(c, NoHandlerFound, log, NoPerformer)
    ELSE call_raw_try(c, i, cid, method, args_raw, cycles,
                      log \o At(i, <<Event("accept", <<>>,
                                           accept(c.handlers[i + 1], cid, method))>>
                                   \o accept_log(c.handlers[i + 1], cid, method)),
                      accept(c.handlers[i + 1], cid, method))

\* faulty variant: the refund remembered is added to the one of the call before
call_raw_settle_accumulating(cid, method, args_raw, cycles, d) ==
    IF d.panic # NoPanic THEN d
    ELSE IF AddOverflows(d.ctx.balance, d.refunded)
         THEN CallPanic([d.ctx EXCEPT !.cycles_refunded = d.refunded],
                        OverflowAdd, d.log, d.performer)
         ELSE Called([credit_refund(d.ctx, d.refunded) EXCEPT
                          !.cycles_refunded = d.ctx.cycles_refunded + d.refunded,
                          !.watcher = record_call(@, WatcherCall(cid, method, args_raw,
                                                                 cycles, d.refunded))],
                     d.ret, d.refunded, d.log, d.performer)

\* call_raw once the loop has ended (`d`): the refund is credited and the call recorded
call_raw_settle(cid, method, args_raw, cycles, d) ==
    IF d.panic # NoPanic THEN d
    ELSE IF AddOverflows(d.ctx.balance, d.refunded)
         THEN CallPanic([d.ctx EXCEPT !.cycles_refunded = d.refunded],
                        OverflowAdd, d.log, d.performer)
         ELSE Called([credit_refund(d.ctx, d.refunded) EXCEPT !.watcher =
                          record_call(@, WatcherCall(cid, method, args_raw,
                                                     cycles, d.refunded))],
                     d.ret, d.refunded, d.log, d.performer)

call_raw(c, cid, method, args_raw, cycles) ==
    IF insufficient(c, cycles)
    THEN CallPanic(c, InsufficientCycles, <<>>, NoPerformer)
    ELSE call_raw_settle(cid, method, args_raw, cycles,
             call_raw_loop(reserve(c, cycles), 0, cid, method, args_raw, cycles, <<>>))

----------------------------------------------------------------------------
(* Canister: the builder.  Each step returns the canister and the panic raised. *)

Built(can) == [h |-> can, panic |-> NoPanic]
BuildPanic(can, msg) == [h |-> can, panic |-> msg]

\* faulty variant: a second registration under a name replaces the first
Canister_method_replacing(can, n, handler) ==
    Built([can EXCEPT !.methods =
              (n :> handler) @@ [k \in MethodNames(can) \ {n} |-> can.methods[k]]])

Canister_method(can, n, handler) ==
    IF n \notin MethodNames(can)
    THEN Built([can EXCEPT !.methods = (n :> handler) @@ @])
    ELSE BuildPanic(can, "Method already exists on canister")

Canister_or(can, handler) ==
    IF is_some(can.default)
    THEN BuildPanic(can, "Default handler is already set for canister")
    ELSE Built([can EXCEPT !.default = Some(handler)])

----------------------------------------------------------------------------
(* The tests' inputs: identities, method names, argument bytes, handler chains *)

DepositCycles == "deposit_cycles"
Other == "other"

ArgsA == <<0>>
ArgsB == <<1>>

\* the (canister id, method, raw arguments) of the outbound calls the tests make
Calls ==
    { <<ManagementCanister, DepositCycles, ArgsA>>,
      <<ManagementCanister, DepositCycles, ArgsB>>,
      <<ManagementCanister, Other, ArgsA>>,
      <<Bob, DepositCycles, ArgsA>> }

\* MockContext::with_accept_cycles_handler / with_refund_cycles_handler
AcceptCyclesHandler(n) == cycles_consume(MethodNew, n)
RefundCyclesHandler(n) == cycles_refund(MethodNew, n)

\* closures of RawHandler::raw
AcceptingClosure(n) == Closure(<<OpAccept(n)>>, Ok(EncodeUnit))
RejectingClosure == Closure(<<>>, Err(4))
\* a closure that resets the cycles of the context it is given
InflatingClosure(n) == Closure(<<OpUpdateMsgCycles(n)>>, Ok(EncodeUnit))

NamedConsumeAll == cycles_consume_all(name(MethodNew, DepositCycles))
ExpectingMethod == cycles_consume(expect_arguments(MethodNew, ArgsA), 1)

ManagementWith(named, default) ==
    LET can == Canister_with_balance(CanisterNew(ManagementCanister), 0)
        a == IF is_some(named)
             THEN Canister_method(can, DepositCycles, unwrap(named)).h ELSE can
    IN IF is_some(default) THEN Canister_or(a, unwrap(default)).h ELSE a

\* the handler chains the contexts are built with (with_handler, in order)
Chains ==
    { <<>> }
    \cup { <<AcceptCyclesHandler(n)>> : n \in Amounts }
    \cup { <<RefundCyclesHandler(1)>>,
           <<NamedConsumeAll, RawHandlerRaw(AcceptingClosure(1))>>,
           <<RawHandlerRaw(InflatingClosure(MaxCycles)), cycles_consume_all(MethodNew)>>,
           <<RawHandlerRaw(RejectingClosure)>>,
           <<ExpectingMethod>>,
           <<ManagementWith(Some(AcceptCyclesHandler(1)), None), AcceptCyclesHandler(0)>>,
           <<ManagementWith(Some(name(MethodNew, Other)),
                            Some(RawHandlerRaw(AcceptingClosure(2))))>>,
           <<ManagementWith(Some(ManagementWith(None, Some(MethodNew))), None)>> }

InitBalances == {MaxCycles - 1, U64_MAX}

----------------------------------------------------------------------------
(* The state machine: a test builds a context, injects it and invokes its  *)
(* operations one after the other until one of them panics.                *)

\* nothing done yet; the tests' contexts are built with_caller(John)
NoHistory ==
    [ calls_total |-> 0, calls_since_watch |-> 0, caller_configured |-> John,
      modified |-> {}, stored |-> None, certified |-> None,
      ops |-> 0, invoked |-> {}, balance0 |-> 0, owned0 |-> 0, accepted |-> 0,
      refunded |-> 0, now |-> 0 ]

Init ==
    /\ \E chain \in Chains, b \in InitBalances :
         ctx = [with_msg_cycles(with_balance(with_caller(MockContextNew, John), b),
                                MaxCycles)
                  EXCEPT !.handlers = chain]
    /\ last = [op |-> "new"]
    /\ panicked = NoPanic
    /\ hist = NoHistory
    /\ building = None

Running == panicked = NoPanic

\* the step of an operation that returned r
Step(opname, args, r) ==
    /\ ctx' = r.ctx
    /\ panicked' = r.panic
    /\ last' = [op |-> opname, args |-> args, ret |-> r.ret]
    /\ UNCHANGED <<hist, building>>

\* the step of a call_raw that returned r
CallRawStep(call, cycles, r) ==
    /\ ctx' = r.ctx
    /\ panicked' = r.panic
    /\ last' = [ op |-> "call_raw", ret |-> r.ret,
                 canister_id |-> call[1], method |-> call[2], args_raw |-> call[3],
                 cycles |-> cycles, refunded |-> r.refunded,
                 log |-> r.log, performer |-> r.performer ]
    /\ hist' = IF r.panic = NoPanic
               THEN [hist EXCEPT !.calls_total = @ + 1, !.calls_since_watch = @ + 1]
               ELSE hist
    /\ UNCHANGED building

CallRaw ==
    /\ Running
    /\ hist.calls_total < MaxCalls
    /\ \E call \in Calls, cycles \in Amounts :
         CallRawStep(call, cycles, call_raw(ctx, call[1], call[2], call[3], cycles))

CallStateReset ==
    /\ Running
    /\ ctx' = call_state_reset(ctx)
    /\ last' = [op |-> "call_state_reset"]
    /\ UNCHANGED <<panicked, hist, building>>

Watch ==
    /\ Running
    /\ ctx' = watch(ctx)
    /\ last' = [op |-> "watch"]
    /\ hist' = [hist EXCEPT !.calls_since_watch = 0, !.modified = {}, !.invoked = {}]
    /\ UNCHANGED <<panicked, building>>

UpdateCaller ==
    /\ Running
    /\ \E p \in {Bob, John} :
         /\ ctx' = update_caller(ctx, p)
         /\ last' = [op |-> "update_caller", args |-> p]
         /\ hist' = [hist EXCEPT !.caller_configured = p]
    /\ UNCHANGED <<panicked, building>>

CallerOp == Running /\ Step("caller", <<>>, caller(ctx))

BalanceOp == Running /\ Step("balance", <<>>, balance(ctx))

MsgCyclesAvailable == Running /\ Step("msg_cycles_available", <<>>, msg_cycles_available(ctx))

MsgCyclesAccept ==
    /\ Running
    /\ \E n \in Amounts \cup {U64_MAX} : Step("msg_cycles_accept", n, msg_cycles_accept(ctx, n))

MsgCyclesRefunded == Running /\ Step("msg_cycles_refunded", <<>>, msg_cycles_refunded(ctx))

\* outbound calls and their record in the Watcher
Next ==
    \/ CallRaw
    \/ Watch

Spec == Init /\ [][Next]_vars

\* the reply-callback mode and the caller identity
NextCaller ==
    \/ CallRaw
    \/ CallStateReset
    \/ UpdateCaller
    \/ CallerOp

SpecCaller == Init /\ [][NextCaller]_vars

\* the cycles of the incoming message
NextAccept ==
    \/ MsgCyclesAccept
    \/ MsgCyclesAvailable
    \/ BalanceOp

SpecAccept == Init /\ [][NextAccept]_vars

----------------------------------------------------------------------------
(* Scripted handlers: a Method of up to MaxAtoms atoms, registered on the  *)
(* context itself or as the deposit_cycles method of a Canister, and the   *)
(* deposit_cycles calls of tests::canister::withdraw.                      *)

\* the longest atom list of a Method
MaxAtoms == 2

Atoms ==
    {ConsumeAllCycles}
    \cup { ConsumeCycles(n) : n \in Amounts }
    \cup { RefundCycles(n) : n \in Amounts }

AtomLists == UNION { [1 .. m -> Atoms] : m \in 0 .. MaxAtoms }

Scripted(atoms) == [MethodNew EXCEPT !.atoms = atoms]

ScriptedChains ==
    { <<Scripted(atoms)>> : atoms \in AtomLists }
    \cup { <<ManagementWith(Some(Scripted(atoms)), None)>> : atoms \in AtomLists }

InitMethod ==
    /\ \E chain \in ScriptedChains :
         ctx = [with_caller(MockContextNew, John) EXCEPT !.handlers = chain]
    /\ last = [op |-> "new"]
    /\ panicked = NoPanic
    /\ hist = NoHistory
    /\ building = None

CallDeposit ==
    /\ Running
    /\ hist.calls_total < MaxCalls
    /\ \E cycles \in Amounts :
         CallRawStep(<<ManagementCanister, DepositCycles, ArgsA>>, cycles,
                     call_raw(ctx, ManagementCanister, DepositCycles, ArgsA, cycles))

NextMethod == CallDeposit

SpecMethod == InitMethod /\ [][NextMethod]_vars

----------------------------------------------------------------------------
(* Canisters: a builder chain Canister::new(id).method(..).or(..) registers *)
(* sub-handlers, with_handler moves the canister into the context, and the *)
(* test makes its calls.                                                    *)

\* the handlers registered as methods or default of a Canister
SubHandlers ==
    { AcceptCyclesHandler(1),
      name(MethodNew, Other),
      RawHandlerRaw(AcceptingClosure(1)),
      ManagementWith(None, Some(MethodNew)) }

InitCanister ==
    /\ ctx = with_caller(MockContextNew, John)
    /\ last = [op |-> "new"]
    /\ panicked = NoPanic
    /\ hist = NoHistory
    /\ \E cid \in {ManagementCanister, Bob} : building = Some(CanisterNew(cid))

\* the step of a builder method that returned r
BuildStep(opname, args, r) ==
    /\ building' = Some(r.h)
    /\ panicked' = r.panic
    /\ last' = [op |-> opname, args |-> args]
    /\ UNCHANGED <<ctx, hist>>

CanisterMethod ==
    /\ Running
    /\ is_some(building)
    /\ \E n \in {DepositCycles, Other}, handler \in SubHandlers :
         BuildStep("method", <<n, handler>>, Canister_method(unwrap(building), n, handler))

CanisterOr ==
    /\ Running
    /\ is_some(building)
    /\ \E handler \in SubHandlers :
         BuildStep("or", <<handler>>, Canister_or(unwrap(building), handler))

WithHandler ==
    /\ Running
    /\ is_some(building)
    /\ ctx' = with_handler(ctx, unwrap(building))
    /\ building' = None
    /\ last' = [op |-> "with_handler"]
    /\ UNCHANGED <<panicked, hist>>

\* a call of the test once its context is built, with no cycles or with MaxCycles
CallBuilt ==
    /\ Running
    /\ building = None
    /\ hist.calls_total < MaxCalls
    /\ \E call \in Calls, cycles \in {0, MaxCycles} :
         CallRawStep(call, cycles, call_raw(ctx, call[1], call[2], call[3], cycles))

NextCanister ==
    \/ CanisterMethod
    \/ CanisterOr
    \/ WithHandler
    \/ CallBuilt

SpecCanister == InitCanister /\ [][NextCanister]_vars

----------------------------------------------------------------------------
(* Typed storage: the test stores, reads, mutates and deletes the slots of *)
(* two types, clears the storage and takes new Watchers.                    *)

\* the values of type T the tests put into storage
ValuesOf(T) == IF T = U64 THEN Amounts ELSE {"", "Hello"}

InitStorage ==
    /\ \/ ctx = MockContextNew
       \/ \E data \in ValuesOf(String) : ctx = with_data(MockContextNew, String, data)
    /\ last = [op |-> "new"]
    /\ panicked = NoPanic
    /\ hist = NoHistory
    /\ building = None

\* the step of a storage operation on the slot of T that returned r; `marking`
\* tells whether the operation is one that accesses the slot mutably
StorageStep(opname, T, args, r, marking) ==
    /\ ctx' = r.ctx
    /\ panicked' = r.panic
    /\ last' = [op |-> opname, T |-> T, args |-> args, ret |-> r.ret]
    /\ hist' = IF marking THEN [hist EXCEPT !.modified = @ \cup {T}] ELSE hist
    /\ UNCHANGED building

Store ==
    /\ Running
    /\ \E T \in TypeIds : \E data \in ValuesOf(T) :
         StorageStep("store", T, data, store(ctx, T, data), TRUE)

Get ==
    /\ Running
    /\ \E T \in TypeIds : StorageStep("get", T, <<>>, get(ctx, T), FALSE)

\* get_mut::<T>() whose reference is only read
GetMut ==
    /\ Running
    /\ \E T \in TypeIds : StorageStep("get_mut", T, <<>>, get_mut(ctx, T), TRUE)

\* get_mut::<T>() whose reference is written
GetMutWrite ==
    /\ Running
    /\ \E T \in TypeIds : \E data \in ValuesOf(T) :
         StorageStep("get_mut_write", T, data,
                     Ret(write(get_mut(ctx, T).ctx, T, data), get_mut(ctx, T).ret), TRUE)

Delete ==
    /\ Running
    /\ \E T \in TypeIds : StorageStep("delete", T, <<>>, delete(ctx, T), TRUE)

ClearStorage ==
    /\ Running
    /\ ctx' = clear_storage(ctx)
    /\ last' = [op |-> "clear_storage"]
    /\ UNCHANGED <<panicked, hist, building>>

NextStorage ==
    \/ Store
    \/ Get
    \/ GetMut
    \/ GetMutWrite
    \/ Delete
    \/ ClearStorage
    \/ Watch

SpecStorage == InitStorage /\ [][NextStorage]_vars

----------------------------------------------------------------------------
(* Stable storage: the test stores tuples of up to MaxArgs values and      *)
(* restores tuples of up to MaxArgs types.                                  *)

\* the longest tuple stored or asked for
MaxArgs == 2

StableValues == { [type |-> Nat8, v |-> 0], [type |-> Nat8, v |-> 1],
                  [type |-> Bool, v |-> 0], [type |-> Bool, v |-> 1] }

Tuples(S) == UNION { [1 .. m -> S] : m \in 0 .. MaxArgs }

InitStable ==
    /\ \/ ctx = MockContextNew /\ hist = NoHistory
       \/ \E data \in Tuples(StableValues) :
            /\ ctx = with_stable(MockContextNew, data)
            /\ hist = [NoHistory EXCEPT !.stored = Some(data)]
    /\ last = [op |-> "new"]
    /\ panicked = NoPanic
    /\ building = None

StableStore ==
    /\ Running
    /\ \E data \in Tuples(StableValues) :
         /\ ctx' = stable_store(ctx, data).ctx
         /\ last' = [op |-> "stable_store", args |-> data,
                     ret |-> stable_store(ctx, data).ret]
         /\ hist' = [hist EXCEPT !.stored = Some(data)]
    /\ UNCHANGED <<panicked, building>>

StableRestore ==
    /\ Running
    /\ \E types \in Tuples({Nat8, Bool}) :
         Step("stable_restore", types, stable_restore(ctx, types))

NextStable ==
    \/ StableStore
    \/ StableRestore

SpecStable == InitStable /\ [][NextStable]_vars

----------------------------------------------------------------------------
(* Certified data: the builder sets a payload before the context is        *)
(* injected; the test then sets payloads and reads the slot and the        *)
(* certificate.                                                             *)

\* n bytes, all of them b
Filled(n, b) == [i \in 1 .. n |-> b]

\* the payloads of tests::certified_data, one that differs from another in its
\* trailing zero only, and payloads around the size of the slot
Payloads ==
    { <<>>, <<255>>, <<1, 2, 3>>, <<1, 2, 3, 0>>, <<0, 1, 2, 3, 4, 5>>,
      Filled(CertifiedDataMax - 1, 7), Filled(CertifiedDataMax, 7),
      Filled(CertifiedDataMax + 1, 7) }

InitCertified ==
    /\ ctx = MockContextNew
    /\ last = [op |-> "new"]
    /\ panicked = NoPanic
    /\ hist = NoHistory
    /\ building = None

\* the step of an operation that was given `data` to certify and returned r
CertifyStep(opname, data, r) ==
    /\ ctx' = r.ctx
    /\ panicked' = r.panic
    /\ last' = [op |-> opname, args |-> data, ret |-> r.ret]
    /\ hist' = IF r.panic = NoPanic THEN [hist EXCEPT !.certified = Some(data)] ELSE hist
    /\ UNCHANGED building

\* the builder runs before the context is injected and its operations invoked
WithCertifiedData ==
    /\ Running
    /\ last.op \in {"new", "with_certified_data"}
    /\ \E data \in Payloads :
         CertifyStep("with_certified_data", data, with_certified_data(ctx, data))

SetCertifiedData ==
    /\ Running
    /\ \E data \in Payloads :
         CertifyStep("set_certified_data", data, set_certified_data(ctx, data))

DataCertificate == Running /\ Step("data_certificate", <<>>, data_certificate(ctx))

GetCertifiedData == Running /\ Step("get_certified_data", <<>>, get_certified_data(ctx))

NextCertified ==
    \/ WithCertifiedData
    \/ SetCertifiedData
    \/ DataCertificate
    \/ GetCertifiedData
    \/ Watch

SpecCertified == InitCertified /\ [][NextCertified]_vars

----------------------------------------------------------------------------
(* The Watcher: a test of up to MaxOps operations on a context built with  *)
(* data, certified data, cycles and a handler, with watch() at any point.  *)

\* the operations of one test, watch() not counted
MaxOps == 3

\* the flag of the Watcher that belongs to a Context operation
Flag(w, op) ==
    CASE op = "id" -> w.called_id
      [] op = "balance" -> w.called_balance
      [] op = "caller" -> w.called_caller
      [] op = "msg_cycles_available" -> w.called_msg_cycles_available
      [] op = "msg_cycles_accept" -> w.called_msg_cycles_accept
      [] op = "msg_cycles_refunded" -> w.called_msg_cycles_refunded
      [] op = "stable_store" -> w.called_stable_store
      [] op = "stable_restore" -> w.called_stable_restore
      [] op = "set_certified_data" -> w.called_set_certified_data
      [] op = "data_certificate" -> w.called_data_certificate

FlagOps ==
    { "id", "balance", "caller", "msg_cycles_available", "msg_cycles_accept",
      "msg_cycles_refunded", "stable_store", "stable_restore", "set_certified_data",
      "data_certificate" }

\* MockContext::new() with the builder's settings; with_stable goes through
\* stable_store
Configured ==
    with_certified_data(
        with_data(
            [with_msg_cycles(with_balance(with_caller(MockContextNew, John), MaxCycles),
                             MaxCycles)
               EXCEPT !.handlers = <<RefundCyclesHandler(1)>>],
            U64, 1),
        <<0, 1, 2, 3, 4, 5>>).ctx

InitWatcher ==
    /\ \/ ctx = Configured /\ hist = [NoHistory EXCEPT !.certified = Configured.certified_data]
       \/ /\ ctx = with_stable(Configured, <<[type |-> Nat8, v |-> 1]>>)
          /\ hist = [NoHistory EXCEPT !.certified = Configured.certified_data,
                                      !.stored = Some(<<[type |-> Nat8, v |-> 1]>>),
                                      !.invoked = {"stable_store"}]
    /\ last = [op |-> "new"]
    /\ panicked = NoPanic
    /\ building = None

\* the step of one of the test's operations, which returned r
Probe(opname, args, r) ==
    /\ hist.ops < MaxOps
    /\ ctx' = r.ctx
    /\ panicked' = r.panic
    /\ last' = [op |-> opname, args |-> args, ret |-> r.ret]
    /\ hist' = [hist EXCEPT !.ops = @ + 1, !.invoked = @ \cup {opname}]
    /\ UNCHANGED building

ProbeId == Running /\ Probe("id", <<>>, id(ctx))

ProbeBalance == Running /\ Probe("balance", <<>>, balance(ctx))

ProbeCaller == Running /\ Probe("caller", <<>>, caller(ctx))

ProbeMsgCyclesAvailable == Running /\ Probe("msg_cycles_available", <<>>, msg_cycles_available(ctx))

ProbeMsgCyclesAccept == Running /\ Probe("msg_cycles_accept", 1, msg_cycles_accept(ctx, 1))

ProbeMsgCyclesRefunded == Running /\ Probe("msg_cycles_refunded", <<>>, msg_cycles_refunded(ctx))

ProbeStableStore ==
    /\ Running
    /\ Probe("stable_store", <<[type |-> Bool, v |-> 1]>>,
             stable_store(ctx, <<[type |-> Bool, v |-> 1]>>))

ProbeStableRestore == Running /\ Probe("stable_restore", <<Nat8>>, stable_restore(ctx, <<Nat8>>))

ProbeSetCertifiedData ==
    /\ Running
    /\ \E data \in {<<1, 2, 3>>, Filled(CertifiedDataMax + 1, 7)} :
         Probe("set_certified_data", data, set_certified_data(ctx, data))

ProbeDataCertificate == Running /\ Probe("data_certificate", <<>>, data_certificate(ctx))

ProbeStore == Running /\ Probe("store", MaxCycles, store(ctx, U64, MaxCycles))

ProbeGet == Running /\ Probe("get", <<>>, get(ctx, String))

\* the step of an outbound call of the test, which returned r
ProbeCall(call, cycles, r) ==
    /\ hist.ops < MaxOps
    /\ ctx' = r.ctx
    /\ panicked' = r.panic
    /\ last' = [ op |-> "call_raw", ret |-> r.ret,
                 canister_id |-> call[1], method |-> call[2], args_raw |-> call[3],
                 cycles |-> cycles, refunded |-> r.refunded,
                 log |-> r.log, performer |-> r.performer ]
    /\ hist' = IF r.panic = NoPanic
               THEN [hist EXCEPT !.ops = @ + 1, !.invoked = @ \cup {"call_raw"},
                                 !.calls_total = @ + 1, !.calls_since_watch = @ + 1,
                                 !.refunded = r.refunded]
               ELSE [hist EXCEPT !.ops = @ + 1, !.invoked = @ \cup {"call_raw"}]
    /\ UNCHANGED building

ProbeCallRaw ==
    /\ Running
    /\ ProbeCall(<<ManagementCanister, DepositCycles, ArgsA>>, MaxCycles,
                 call_raw(ctx, ManagementCanister, DepositCycles, ArgsA, MaxCycles))

NextWatcher ==
    \/ ProbeId
    \/ ProbeBalance
    \/ ProbeCaller
    \/ ProbeMsgCyclesAvailable
    \/ ProbeMsgCyclesAccept
    \/ ProbeMsgCyclesRefunded
    \/ ProbeStableStore
    \/ ProbeStableRestore
    \/ ProbeSetCertifiedData
    \/ ProbeDataCertificate
    \/ ProbeStore
    \/ ProbeGet
    \/ ProbeCallRaw
    \/ CallStateReset
    \/ Watch

SpecWatcher == InitWatcher /\ [][NextWatcher]_vars

----------------------------------------------------------------------------
(* Handlers with a context of their own: a test constructs a Canister or a *)
(* RawHandler, invokes perform on it directly, with no context supplied,   *)
(* or installs it on its context and makes outbound calls to it.           *)

\* a closure that returns the caller, the identity and the available cycles of the
\* context it is given
SeeingClosure == Reporting(<<OpCaller, OpId, OpAvailable>>)

\* the sub-handlers of the Canisters under test
OwnedSubs ==
    { Scripted(<<ConsumeCycles(1)>>),
      Scripted(<<RefundCycles(1)>>),
      Scripted(<<ConsumeAllCycles>>),
      RawHandlerRaw(AcceptingClosure(1)),
      RawHandlerRaw(SeeingClosure),
      RawHandlerRaw(InflatingClosure(MaxCycles)),
      CustomHandler(TRUE, 0),
      CustomHandler(TRUE, MaxCycles) }

\* Canister::new(management_canister()) with a method, a default, both or neither,
\* and RawHandlers on their own
Tested ==
    { ManagementWith(None, None) }
    \cup { ManagementWith(Some(h), None) : h \in OwnedSubs }
    \cup { ManagementWith(None, Some(h)) : h \in OwnedSubs }
    \cup { ManagementWith(Some(Scripted(<<ConsumeCycles(1)>>)),
                          Some(RawHandlerRaw(SeeingClosure))) }
    \cup { RawHandlerRaw(SeeingClosure), RawHandlerRaw(RejectingClosure) }
    \cup { RawHandlerRaw(AcceptingClosure(k)) : k \in Amounts }

InitOwned ==
    /\ ctx = with_balance(with_caller(MockContextNew, John), MaxCycles + 1)
    /\ last = [op |-> "new"]
    /\ panicked = NoPanic
    /\ hist = [NoHistory EXCEPT !.balance0 = MaxCycles + 1]
    /\ \E h \in Tested : building = Some(h)

\* handler.perform(caller, cycles, canister_id, method, args_raw, None), invoked
\* by the test itself
PerformDirect ==
    /\ Running
    /\ is_some(building)
    /\ hist.ops < MaxOps
    /\ \E from \in {John, Bob}, cycles \in Amounts, method \in {DepositCycles, Other} :
         /\ building' = Some(perform(unwrap(building), from, cycles, ManagementCanister,
                                     method, ArgsA, None).h)
         /\ panicked' = perform(unwrap(building), from, cycles, ManagementCanister,
                                method, ArgsA, None).panic
         /\ last' = [ op |-> "perform", from |-> from, cycles |-> cycles,
                      canister_id |-> ManagementCanister, method |-> method,
                      ret |-> perform(unwrap(building), from, cycles, ManagementCanister,
                                      method, ArgsA, None).res,
                      refunded |-> perform(unwrap(building), from, cycles,
                                           ManagementCanister, method, ArgsA, None).refund,
                      log |-> perform(unwrap(building), from, cycles, ManagementCanister,
                                      method, ArgsA, None).log ]
         /\ hist' = [hist EXCEPT !.ops = @ + 1]
    /\ UNCHANGED ctx

\* with_handler: the handler moves into the context, with the balance it has by then
Install ==
    /\ Running
    /\ is_some(building)
    /\ ctx' = with_handler(ctx, unwrap(building))
    /\ building' = None
    /\ last' = [op |-> "with_handler"]
    /\ hist' = [hist EXCEPT !.owned0 = IF unwrap(building).kind = "Canister"
                                       THEN unwrap(building).context.balance ELSE 0]
    /\ UNCHANGED panicked

NextOwned ==
    \/ PerformDirect
    \/ Install
    \/ CallBuilt

SpecOwned == InitOwned /\ [][NextOwned]_vars

----------------------------------------------------------------------------
(* The ledger of one context: outbound calls and msg_cycles_accept, with   *)
(* no update_balance and no watch() between them.                           *)

InitLedger ==
    /\ \E chain \in Chains, b \in InitBalances :
         /\ ctx = [with_msg_cycles(with_balance(with_caller(MockContextNew, John), b),
                                   MaxCycles)
                     EXCEPT !.handlers = chain]
         /\ hist = [NoHistory EXCEPT !.balance0 = b]
    /\ last = [op |-> "new"]
    /\ panicked = NoPanic
    /\ building = None

\* msg_cycles_accept(n), what it returns added to what the test was given so far
LedgerAccept ==
    /\ Running
    /\ \E n \in Amounts :
         /\ ctx' = msg_cycles_accept(ctx, n).ctx
         /\ panicked' = msg_cycles_accept(ctx, n).panic
         /\ last' = [op |-> "msg_cycles_accept", args |-> n,
                     ret |-> msg_cycles_accept(ctx, n).ret]
         /\ hist' = IF msg_cycles_accept(ctx, n).panic = NoPanic
                    THEN [hist EXCEPT !.accepted = @ + msg_cycles_accept(ctx, n).ret]
                    ELSE hist
    /\ UNCHANGED building

NextLedger ==
    \/ CallRaw
    \/ LedgerAccept

SpecLedger == InitLedger /\ [][NextLedger]_vars

----------------------------------------------------------------------------
(* Scripted handlers with expect_arguments: on the chain of a context, as   *)
(* a sub-handler of a Canister, and performed by the test itself on a       *)
(* context it supplies.                                                      *)

\* a Method that expects ArgsA and then runs `atoms`
Expecting(atoms) == expect_arguments(Scripted(atoms), ArgsA)

ExpectingHandlers ==
    { Expecting(<<ConsumeCycles(1)>>),
      Expecting(<<ConsumeAllCycles>>),
      Expecting(<<RefundCycles(1)>>) }

ExpectingChains ==
    { <<m>> : m \in ExpectingHandlers }
    \cup { <<ManagementWith(Some(m), None)>> : m \in ExpectingHandlers }
    \cup { <<ManagementWith(Some(name(MethodNew, Other)), Some(m))>> :
             m \in ExpectingHandlers }
    \cup { <<name(Expecting(<<ConsumeAllCycles>>), Other), AcceptCyclesHandler(1)>> }

InitExpect ==
    /\ \E chain \in ExpectingChains :
         ctx = [with_msg_cycles(with_balance(with_caller(MockContextNew, John),
                                             MaxCycles + 1), MaxCycles)
                  EXCEPT !.handlers = chain]
    /\ last = [op |-> "new"]
    /\ panicked = NoPanic
    /\ hist = NoHistory
    /\ \E m \in ExpectingHandlers : building = Some(m)

\* the step of a perform on the context the test supplied that returned r
SuppliedStep(from, cycles, method, args_raw, r) ==
    /\ ctx' = unwrap(r.ctx)
    /\ panicked' = r.panic
    /\ building' = Some(r.h)
    /\ last' = [ op |-> "perform_on", from |-> from, cycles |-> cycles,
                 canister_id |-> ManagementCanister, method |-> method,
                 args_raw |-> args_raw, ret |-> r.res, refunded |-> r.refund ]
    /\ hist' = [hist EXCEPT !.ops = @ + 1]

\* handler.perform(caller, 0, canister_id, method, args_raw, Some(&mut ctx)),
\* invoked by the test itself: the handler works on the cycles ctx has available
PerformSupplied ==
    /\ Running
    /\ hist.ops < MaxOps
    /\ \E args_raw \in {ArgsA, ArgsB} :
         SuppliedStep(Bob, 0, DepositCycles, args_raw,
                      perform(unwrap(building), Bob, 0, ManagementCanister,
                              DepositCycles, args_raw, Some(ctx)))

NextExpect ==
    \/ CallRaw
    \/ PerformSupplied
    \/ Watch

SpecExpect == InitExpect /\ [][NextExpect]_vars

----------------------------------------------------------------------------
(* The refund a context remembers: a test of up to MaxOps operations that  *)
(* makes outbound calls, accepts cycles, writes to its storages and reads  *)
(* msg_cycles_refunded(), with watch() at any point.                        *)

RefundedCall ==
    /\ Running
    /\ \E call \in Calls, cycles \in Amounts :
         ProbeCall(call, cycles, call_raw(ctx, call[1], call[2], call[3], cycles))

NextRefunded ==
    \/ RefundedCall
    \/ ProbeMsgCyclesRefunded
    \/ ProbeMsgCyclesAccept
    \/ ProbeStore
    \/ ProbeStableStore
    \/ Watch

SpecRefunded == Init /\ [][NextRefunded]_vars

----------------------------------------------------------------------------
(* The connection log: a canister sends messages through a WsConnections,  *)
(* up to MaxSends times, while its clock advances.  A send goes to          *)
(* connection 1 one block period after the send before it, except for up   *)
(* to MaxBurst sends that come sooner, pass no message or pass two.  A      *)
(* message carries the block id of the call that sent it.                   *)

\* the sends of one test
MaxSends == 34

\* the sends of one test that are not one message one block period later
MaxBurst == 1

Message(connection_id, block_id) ==
    [connection_id |-> connection_id, message |-> <<block_id>>]

\* the messages passed to a send_raw in the block block_id, the usual ones first
Batches(block_id) ==
    << <<Message(1, block_id)>>,
       <<>>,
       <<Message(1, block_id), Message(2, block_id)>> >>

\* the nanoseconds the clock advanced since it was read last, and the messages
\* passed (an index of Batches)
Sends == { <<3000000, 1>>, <<3000000, 2>>, <<0, 3>>, <<1000000, 1>> }

Usual == <<3000000, 1>>

InitConnections ==
    /\ ctx = set_certified_data(MockContextNew, WsConnectionsNew.hash).ctx
    /\ building = Some(WsConnectionsNew)
    /\ last = [op |-> "new"]
    /\ panicked = NoPanic
    /\ \E now \in {0, 2000000} : hist = [NoHistory EXCEPT !.now = now]

\* the step of a send_raw(messages) made when the clock shows `now`, which left ws
SendRawStep(now, block_id, messages, ws, r) ==
    /\ building' = Some(ws)
    /\ ctx' = r.ctx
    /\ panicked' = r.panic
    /\ last' = [ op |-> "send_raw", time |-> now, block_id |-> block_id,
                 messages |-> messages, ret |-> r.ret ]

SendRaw ==
    /\ Running
    /\ hist.calls_total < MaxSends
    /\ \E send \in Sends :
         /\ send # Usual => hist.ops < MaxBurst
         /\ hist' = [hist EXCEPT !.now = @ + send[1], !.calls_total = @ + 1,
                                  !.ops = IF send = Usual THEN @ ELSE @ + 1]
         /\ SendRawStep(hist.now + send[1],
                        get_current_block_id(hist.now + send[1]),
                        Batches(get_current_block_id(hist.now + send[1]))[send[2]],
                        send_raw(unwrap(building),
                                 get_current_block_id(hist.now + send[1]),
                                 Batches(get_current_block_id(hist.now + send[1]))[send[2]]),
                        set_certified_data(
                            time(ctx, hist.now + send[1]).ctx,
                            send_raw(unwrap(building),
                                     get_current_block_id(hist.now + send[1]),
                                     Batches(get_current_block_id(hist.now + send[1]))[send[2]]).hash))

NextConnections == SendRaw

SpecConnections == InitConnections /\ [][NextConnections]_vars

----------------------------------------------------------------------------
(* Properties *)

Min(a, b) == IF a < b THEN a ELSE b

CallReturned == last.op = "call_raw" /\ panicked = NoPanic

\* C1: for every outbound call that completes, with c cycles sent and r the refund
\* reported, the balance after the call is the balance before it minus c plus r.
C1_BalanceAfterCall ==
    [][ (last'.op = "call_raw" /\ panicked' = NoPanic)
          => ctx'.balance = ctx.balance - last'.cycles + last'.refunded ]_vars

\* a call returned with part of the cycles refunded
C1_Witness == CallReturned /\ 0 < last.refunded /\ last.refunded < last.cycles

\* C2: the refund a handler reports for an outbound call is at most the cycles sent
\* (and, being a u64, at least 0), whichever handler performed the call.
C2_RefundWithinSent ==
    CallReturned => (0 <= last.refunded /\ last.refunded <= last.cycles)

\* C3, as claimed: reply-callback mode is entered only by call_raw and is left when
\* call_raw returns.
C3_ClearedOnReturn ==
    [][ /\ (~ctx.is_reply_callback_mode /\ ctx'.is_reply_callback_mode)
             => last'.op = "call_raw"
        /\ (last'.op = "call_raw" /\ panicked' = NoPanic)
             => ~ctx'.is_reply_callback_mode ]_vars

\* C3, amended: reply-callback mode is entered only by call_raw and is still set when
\* call_raw returns; only call_state_reset leaves it, and it always does.  From a
\* completed call until that reset caller() aborts; outside the mode it returns the
\* caller identity.
C3_ClearedByReset ==
    [][ /\ (~ctx.is_reply_callback_mode /\ ctx'.is_reply_callback_mode)
             => last'.op = "call_raw"
        /\ (last'.op = "call_raw" /\ panicked' = NoPanic)
             => ctx'.is_reply_callback_mode
        /\ (ctx.is_reply_callback_mode /\ ~ctx'.is_reply_callback_mode)
             => last'.op = "call_state_reset"
        /\ last'.op = "call_state_reset" => ~ctx'.is_reply_callback_mode
        /\ last'.op = "caller"
             => IF ctx.is_reply_callback_mode
                THEN panicked' # NoPanic
                ELSE panicked' = NoPanic /\ last'.ret = ctx.caller ]_vars

\* caller() returned the caller identity after an outbound call and a reset
C3_Witness ==
    /\ last.op = "caller"
    /\ panicked = NoPanic
    /\ hist.calls_total > 0
    /\ ~ctx.is_reply_callback_mode

\* C4: caller() panics in every state in reply-callback mode, and in every other
\* state returns the caller configured last by with_caller / update_caller.
\* (caller() leaves the mode as it found it.)
C4_Caller ==
    last.op = "caller"
      => IF ctx.is_reply_callback_mode
         THEN panicked # NoPanic
         ELSE panicked = NoPanic /\ last.ret = hist.caller_configured

\* caller() returned a caller set by update_caller, after a call and its reset
C4_Witness ==
    /\ last.op = "caller"
    /\ panicked = NoPanic
    /\ last.ret = Bob
    /\ hist.calls_total > 0

\* the invocations of `ev` that call_raw made on the handlers of the chain itself
TopLevel(log, ev) == SelectSeq(log, LAMBDA e : e.path = <<>> /\ e.ev = ev)

\* the indices of the chain's handlers that accept the call made last
Accepting == { i \in 0 .. Len(ctx.handlers) - 1 :
                 accept(ctx.handlers[i + 1], last.canister_id, last.method) }

FirstAccepting == CHOOSE i \in Accepting : \A j \in Accepting : i <= j

\* C5: an outbound call (one that passed the balance check) is performed by exactly
\* one handler, the one of lowest index whose accept is true; accept is invoked on the
\* handlers up to it, in order, and neither accept nor perform on any handler after it.
\* (accept reads nothing a call changes, so the chain after the call decides it.)
C5_FirstAcceptingPerforms ==
    (last.op = "call_raw" /\ panicked # InsufficientCycles)
      => IF Accepting = {}
         THEN /\ last.performer = NoPerformer
              /\ TopLevel(last.log, "perform") = <<>>
         ELSE /\ last.performer = FirstAccepting
              /\ Len(TopLevel(last.log, "perform")) = 1
              /\ TopLevel(last.log, "perform")[1].idx = FirstAccepting
              /\ \A k \in 1 .. Len(last.log) : last.log[k].idx <= FirstAccepting
              /\ Len(TopLevel(last.log, "accept")) = FirstAccepting + 1
              /\ \A k \in 1 .. FirstAccepting + 1 :
                   /\ TopLevel(last.log, "accept")[k].idx = k - 1
                   /\ TopLevel(last.log, "accept")[k].ret = (k - 1 = FirstAccepting)

\* a closure handler performed, and the handler registered after it, which accepts
\* the call too, was left alone
C5_Witness ==
    /\ CallReturned
    /\ Len(ctx.handlers) = 2
    /\ ctx.handlers[1].kind = "RawHandler"
    /\ last.performer = 0
    /\ 1 \in Accepting

\* C6: an outbound call of more cycles than the balance panics and changes nothing
\* (no field of the context, no handler, no record) and no accept or perform is
\* invoked; a call of exactly the balance is not refused by this check.
C6_InsufficientFunds ==
    [][ last'.op = "call_raw"
          => IF last'.cycles > ctx.balance
             THEN /\ panicked' = InsufficientCycles
                  /\ ctx' = ctx
                  /\ hist' = hist
                  /\ last'.log = <<>>
             ELSE panicked' # InsufficientCycles ]_vars

C6_Witness == last.op = "call_raw" /\ panicked = InsufficientCycles

\* C7: an outbound call that passed the balance check panics with "No handler found"
\* exactly when no handler of the chain accepts it (an empty chain included); then no
\* call is recorded and no refund is credited or remembered.
C7_NoHandlerFound ==
    [][ (last'.op = "call_raw" /\ last'.cycles <= ctx.balance)
          => /\ (panicked' = NoHandlerFound)
                  <=> (\A i \in 1 .. Len(ctx.handlers) :
                          ~accept(ctx.handlers[i], last'.canister_id, last'.method))
             /\ panicked' = NoHandlerFound
                  => /\ ctx'.watcher.calls = ctx.watcher.calls
                     /\ ctx'.cycles_refunded = ctx.cycles_refunded
                     /\ ctx'.balance = ctx.balance - last'.cycles
                     /\ hist' = hist ]_vars

\* a chain with handlers, none of which accepted the call
C7_Witness ==
    /\ last.op = "call_raw"
    /\ panicked = NoHandlerFound
    /\ Len(ctx.handlers) > 0

\* C8: every completed outbound call appends exactly one record (target, method,
\* raw arguments, cycles sent, cycles refunded) at the end of the Watcher's calls;
\* nothing else adds to them and watch() empties them, so call_count() is the number
\* of calls completed since the last watch() and get_call(n) is the n-th of them.
C8_CallsRecorded ==
    [][ /\ call_count(ctx'.watcher) = hist'.calls_since_watch
        /\ IF last'.op = "call_raw" /\ panicked' = NoPanic
           THEN /\ ctx'.watcher.calls =
                     Append(ctx.watcher.calls,
                            WatcherCall(last'.canister_id, last'.method, last'.args_raw,
                                        last'.cycles, last'.refunded))
                /\ get_call(ctx'.watcher, call_count(ctx.watcher)) =
                     WatcherCall(last'.canister_id, last'.method, last'.args_raw,
                                 last'.cycles, last'.refunded)
           ELSE IF last'.op = "watch"
                THEN ctx'.watcher.calls = <<>>
                ELSE ctx'.watcher.calls = ctx.watcher.calls ]_vars

\* two different calls are on record
C8_Witness ==
    /\ call_count(ctx.watcher) = 2
    /\ get_call(ctx.watcher, 0) # get_call(ctx.watcher, 1)

\* C9: msg_cycles_accept(n) with a cycles available returns min(n, a), takes
\* min(n, a) from the available cycles and adds it to the balance: the available
\* cycles never grow and balance + available is unchanged.  (An accept whose credit
\* does not fit the u64 balance aborts on the checked addition and returns nothing.)
C9_Accept ==
    [][ (last'.op = "msg_cycles_accept" /\ panicked' = NoPanic)
          => /\ last'.ret = Min(last'.args, ctx.cycles)
             /\ ctx'.cycles = ctx.cycles - Min(last'.args, ctx.cycles)
             /\ ctx'.balance = ctx.balance + Min(last'.args, ctx.cycles)
             /\ ctx'.cycles <= ctx.cycles
             /\ ctx'.balance + ctx'.cycles = ctx.balance + ctx.cycles ]_vars

\* more was asked for than was available, and what was available was accepted
C9_Witness ==
    /\ last.op = "msg_cycles_accept"
    /\ panicked = NoPanic
    /\ 0 < last.ret
    /\ last.ret < last.args
    /\ ctx.cycles = 0

\* the chain is the single handler of with_accept_cycles_handler(n)
OnlyConsumeExactly(c) ==
    /\ Len(c.handlers) = 1
    /\ c.handlers[1].kind = "Method"
    /\ c.handlers[1].name = None
    /\ c.handlers[1].expected_args = None
    /\ Len(c.handlers[1].atoms) = 1
    /\ c.handlers[1].atoms[1].atom = "ConsumeCycles"

\* C10: with the single handler consume-exactly(n), an outbound call of c <= balance
\* cycles returns, consumes min(n, c) and refunds c - min(n, c): the balance after it
\* is the balance before it minus min(n, c).
C10_ConsumeExactly ==
    [][ (last'.op = "call_raw" /\ last'.cycles <= ctx.balance /\ OnlyConsumeExactly(ctx))
          => /\ panicked' = NoPanic
             /\ last'.refunded =
                  last'.cycles - Min(ctx.handlers[1].atoms[1].n, last'.cycles)
             /\ ctx'.balance =
                  ctx.balance - Min(ctx.handlers[1].atoms[1].n, last'.cycles) ]_vars

\* the handler asks for more than was sent: nothing is refunded
C10_Witness ==
    /\ CallReturned
    /\ OnlyConsumeExactly(ctx)
    /\ ctx.handlers[1].atoms[1].n > last.cycles
    /\ last.cycles > 0
    /\ last.refunded = 0

\* the Scripted handler of a chain of ScriptedChains
ScriptedOf(c) ==
    IF c.handlers[1].kind = "Method" THEN c.handlers[1]
    ELSE c.handlers[1].methods[DepositCycles]

\* the cycles a Scripted handler has taken for good: those its Canister's context
\* holds (a Method registered on the chain itself works on a context of its own)
TakenBy(c) ==
    IF c.handlers[1].kind = "Canister" THEN c.handlers[1].context.balance ELSE 0

Fatal == 0 - 1

\* what an atom leaves available of `a` cycles, as the handler's contract has it
Leaves(atom, a) ==
    CASE atom.atom = "ConsumeAllCycles" -> 0
      [] atom.atom = "ConsumeCycles" -> a - Min(atom.n, a)
      [] atom.atom = "RefundCycles" -> IF atom.n > a THEN Fatal ELSE atom.n

\* what the first k atoms leave available of `a` cycles
RECURSIVE LeftAfter(_, _, _)
LeftAfter(atoms, k, a) ==
    IF k = 0 THEN a
    ELSE IF LeftAfter(atoms, k - 1, a) = Fatal THEN Fatal
         ELSE Leaves(atoms[k], LeftAfter(atoms, k - 1, a))

EndsWithRefund(m) == m.atoms # <<>> /\ m.atoms[Len(m.atoms)].atom = "RefundCycles"

\* C11: refund-exactly(n), run with a cycles available, panics when n > a and
\* otherwise accepts a - n and leaves n: a call performed by a Scripted handler whose
\* last atom is refund-exactly(n) panics when an atom of it finds less than it must
\* refund, and otherwise returns with refund n, the other c - n cycles taken.
C11_RefundExactly ==
    [][ (last'.op = "call_raw" /\ EndsWithRefund(ScriptedOf(ctx)))
          => IF LeftAfter(ScriptedOf(ctx).atoms, Len(ScriptedOf(ctx).atoms),
                          last'.cycles) = Fatal
             THEN panicked' # NoPanic
             ELSE /\ panicked' = NoPanic
                  /\ last'.refunded = ScriptedOf(ctx).atoms[Len(ScriptedOf(ctx).atoms)].n
                  /\ ctx'.balance = ctx.balance - (last'.cycles - last'.refunded)
                  /\ ctx'.handlers[1].kind = "Canister"
                       => TakenBy(ctx') = TakenBy(ctx) + (last'.cycles - last'.refunded)
        ]_vars

\* a call that sent more than the handler refunds: part consumed, the rest refunded
C11_Witness ==
    /\ CallReturned
    /\ EndsWithRefund(ScriptedOf(ctx))
    /\ 0 < last.refunded
    /\ last.refunded < last.cycles

HasConsumeAll(m) == \E k \in 1 .. Len(m.atoms) : m.atoms[k].atom = "ConsumeAllCycles"

\* C12: a Scripted handler with consume-all among its atoms reports refund 0 whenever
\* its perform completes, whatever was sent and whatever atoms come before or after.
C12_ConsumeAll ==
    (CallReturned /\ HasConsumeAll(ScriptedOf(ctx))) => last.refunded = 0

\* cycles were sent, consume-all ran first and another atom after it
C12_Witness ==
    /\ CallReturned
    /\ last.cycles > 0
    /\ Len(ScriptedOf(ctx).atoms) = 2
    /\ ScriptedOf(ctx).atoms[1].atom = "ConsumeAllCycles"
    /\ ScriptedOf(ctx).atoms[2].atom # "ConsumeAllCycles"
    /\ last.refunded = 0

CtxSupplied == "assertion failed: ctx.is_none()"

\* the chain is one Canister
OnlyCanister(c) == Len(c.handlers) = 1 /\ c.handlers[1].kind = "Canister"

\* the sub-handler registered under `key` of Canister h
SubHandler(h, key) == IF key = DefaultKey THEN unwrap(h.default) ELSE h.methods[key]

\* C13: Canister.accept(target, method) is false when target is not the canister's
\* id; otherwise it is true exactly when a default is set, or a sub-handler is
\* registered under the method and that sub-handler's own accept is true.  (The
\* answer is the one call_raw got from the Canister; a call no handler accepts
\* ends with "No handler found".)
C13_CanisterAccept ==
    (last.op = "call_raw" /\ OnlyCanister(ctx))
      => /\ last.log[1].ev = "accept" /\ last.log[1].path = <<>>
         /\ last.log[1].ret =
              IF ctx.handlers[1].id # last.canister_id THEN FALSE
              ELSE \/ is_some(ctx.handlers[1].default)
                   \/ /\ last.method \in MethodNames(ctx.handlers[1])
                      /\ accept(ctx.handlers[1].methods[last.method],
                                last.canister_id, last.method)
         /\ ~last.log[1].ret <=> panicked = NoHandlerFound

\* the target is the canister's id, no default is set, the method is registered and
\* its sub-handler refuses the call: the Canister refuses it
C13_Witness ==
    /\ last.op = "call_raw"
    /\ OnlyCanister(ctx)
    /\ ctx.handlers[1].id = last.canister_id
    /\ ~is_some(ctx.handlers[1].default)
    /\ last.method \in MethodNames(ctx.handlers[1])
    /\ ~last.log[1].ret

\* C14: perform is invoked on a handler only after accept of that same handler
\* returned true for the same (canister id, method), on the chain's handlers and on
\* the sub-handlers a Canister delegates to: so every handler that performed a
\* call to its end accepts that call.
C14_PerformOnlyIfAccepted ==
    CallReturned
      => \A k \in 1 .. Len(last.log) :
            (last.log[k].ev = "perform" /\ Len(last.log[k].path) <= 1)
              => accept(IF last.log[k].path = <<>>
                        THEN ctx.handlers[last.log[k].idx + 1]
                        ELSE SubHandler(ctx.handlers[last.log[k].idx + 1],
                                        last.log[k].path[1]),
                        last.canister_id, last.method)

\* the call was routed to the Canister and the sub-handler it is delegated to is
\* itself a Canister
RoutedToNested ==
    /\ last.op = "call_raw"
    /\ OnlyCanister(ctx)
    /\ last.log[1].ret
    /\ SubHandler(ctx.handlers[1],
                  Canister_key(ctx.handlers[1], last.method)).kind = "Canister"

\* C15: Canister.perform panics when it is given a context; so a Canister registered
\* as a method or as the default of another Canister aborts every call routed to it
\* (and a call delegated to any other handler does not abort for that reason).
C15_NestedCanisterAborts ==
    last.op = "call_raw" /\ OnlyCanister(ctx)
      => (RoutedToNested <=> panicked = CtxSupplied)

C15_Witness == RoutedToNested /\ panicked = CtxSupplied

\* C16: Canister::method under a name already registered panics, and so does
\* Canister::or when a default is set; a registration that returns adds its handler
\* and leaves every earlier registration as it was.
C16_BuilderDuplicates ==
    [][ /\ last'.op = "method"
          => IF last'.args[1] \in MethodNames(unwrap(building))
             THEN panicked' # NoPanic /\ building' = building
             ELSE /\ panicked' = NoPanic
                  /\ MethodNames(unwrap(building')) =
                       MethodNames(unwrap(building)) \cup {last'.args[1]}
                  /\ unwrap(building').methods[last'.args[1]] = last'.args[2]
                  /\ unwrap(building').default = unwrap(building).default
        /\ last'.op = "or"
          => IF is_some(unwrap(building).default)
             THEN panicked' # NoPanic /\ building' = building
             ELSE /\ panicked' = NoPanic
                  /\ unwrap(building').default = Some(last'.args[1])
                  /\ MethodNames(unwrap(building')) = MethodNames(unwrap(building))
        /\ (is_some(building) /\ is_some(building'))
          => \A n \in MethodNames(unwrap(building)) :
                /\ n \in MethodNames(unwrap(building'))
                /\ unwrap(building').methods[n] = unwrap(building).methods[n]
      ]_vars

\* a second registration under a name panicked
C16_Witness ==
    /\ last.op = "method"
    /\ panicked # NoPanic
    /\ last.args[1] \in MethodNames(unwrap(building))
    /\ unwrap(building).methods[last.args[1]] # last.args[2]

\* the operations on the slot of one type tag
Typed(op) == op \in {"store", "get", "get_mut", "get_mut_write", "delete"}

\* the operations that can change the value in a slot that exists
Rewrites(op) == op \in {"store", "get_mut_write", "delete"}

\* what get::<T>() must return in the state
Held(c, T) == IF T \in DOMAIN c.storage THEN c.storage[T] ELSE Default(T)

\* C17: store::<T>(v) puts v into the slot of T and get::<T>() right after it returns
\* v; get::<T>() returns the value in the slot, or inserts and returns T's default
\* when there is none; a slot keeps its value through every operation but a store,
\* a write through get_mut or a delete of its own type tag and clear_storage; an
\* operation on T leaves the slots of the other type tags as they are.
C17_StorageRoundTrip ==
    [][ /\ last'.op = "store" => ctx'.storage[last'.T] = last'.args
        /\ last'.op = "get"
             => /\ last'.ret = Held(ctx, last'.T)
                /\ ctx'.storage[last'.T] = last'.ret
        /\ (last.op = "store" /\ last'.op = "get" /\ last'.T = last.T)
             => last'.ret = last.args
        /\ \A T \in DOMAIN ctx.storage :
             ~(last'.op = "clear_storage" \/ (Rewrites(last'.op) /\ last'.T = T))
               => T \in DOMAIN ctx'.storage /\ ctx'.storage[T] = ctx.storage[T]
        /\ Typed(last'.op)
             => \A U \in TypeIds \ {last'.T} :
                   /\ U \in DOMAIN ctx'.storage <=> U \in DOMAIN ctx.storage
                   /\ U \in DOMAIN ctx.storage => ctx'.storage[U] = ctx.storage[U]
      ]_vars

\* get returned a value only a store or a write can have put there, with the slot
\* of the other type in place
C17_Witness ==
    /\ last.op = "get"
    /\ last.T = U64
    /\ last.ret = MaxCycles
    /\ String \in DOMAIN ctx.storage

\* C18: is_modified::<T>() is true exactly when store::<T>, get_mut::<T> or
\* delete::<T> was invoked since the last watch(): get_mut marks T whether or not
\* its reference is written, get and clear_storage mark nothing.
C18_IsModified ==
    \A T \in TypeIds : is_modified(ctx.watcher, T) <=> T \in hist.modified

\* get_mut on a slot that exists, its reference not written, is the only mutable
\* access since the last watch()
C18_Witness ==
    /\ last.op = "get_mut"
    /\ ctx.storage[last.T] # Default(last.T)
    /\ is_modified(ctx.watcher, last.T)
    /\ hist.modified = {last.T}

\* C19: delete::<T>() removes the slot of T and returns true exactly when there was
\* one; only store, get and get_mut of T make a slot for T, so a second delete with
\* none of them in between returns false; get::<T>() after a delete returns the
\* default value.
C19_Delete ==
    [][ /\ last'.op = "delete"
             => /\ last'.ret = (last'.T \in DOMAIN ctx.storage)
                /\ last'.T \notin DOMAIN ctx'.storage
        /\ \A T \in TypeIds :
             (T \notin DOMAIN ctx.storage /\ T \in DOMAIN ctx'.storage)
               => /\ last'.op \in {"store", "get", "get_mut", "get_mut_write"}
                  /\ last'.T = T
        /\ (last.op = "delete" /\ last'.op = "delete" /\ last'.T = last.T)
             => last'.ret = FALSE
        /\ (last.op = "delete" /\ last'.op = "get" /\ last'.T = last.T)
             => last'.ret = Default(last.T)
      ]_vars

\* a delete found a slot with a value in it and removed it; the other slot stays
C19_Witness ==
    /\ last.op = "delete"
    /\ last.ret = TRUE
    /\ last.T \notin DOMAIN ctx.storage
    /\ DOMAIN ctx.storage # {}

\* the types of a tuple of values
TypesOf(data) == [i \in 1 .. Len(data) |-> data[i].type]

\* the tuple of types asked for is the beginning of the types of the tuple stored last
AsksPrefix(types) ==
    /\ is_some(hist.stored)
    /\ Len(types) <= Len(unwrap(hist.stored))
    /\ types = SubSeq(TypesOf(unwrap(hist.stored)), 1, Len(types))

\* C20: stable_restore returns the values of the most recent stable_store, which
\* replaced the whole buffer: asked for the types stored, or for the first k of them,
\* it succeeds with those values, the bytes after them ignored; it never returns
\* anything else.
C20_StableRoundTrip ==
    last.op = "stable_restore"
      => /\ AsksPrefix(last.args) => last.ret.ok
         /\ last.ret.ok
              => /\ AsksPrefix(last.args)
                 /\ last.ret.v = SubSeq(unwrap(hist.stored), 1, Len(last.args))
         /\ ctx.stable = IF is_some(hist.stored)
                         THEN encode_args(unwrap(hist.stored)) ELSE <<>>

\* one value was restored from a buffer that holds two
C20_Witness ==
    /\ last.op = "stable_restore"
    /\ last.ret.ok
    /\ Len(last.args) = 1
    /\ Len(unwrap(hist.stored)) = 2

\* an operation that sets the certified data was given the payload last.args
Certifying(op) == op \in {"with_certified_data", "set_certified_data"}

\* C21: the with_certified_data builder and set_certified_data both accept every
\* payload of at most 32 bytes, which is then the content of the slot, and both panic
\* on every longer payload; the slot never holds more than 32 bytes.
C21_CertifiedDataSize ==
    [][ /\ Certifying(last'.op)
             => IF Len(last'.args) <= CertifiedDataMax
                THEN panicked' = NoPanic /\ ctx'.certified_data = Some(last'.args)
                ELSE panicked' # NoPanic /\ ctx'.certified_data = ctx.certified_data
        /\ is_some(ctx'.certified_data)
             => Len(unwrap(ctx'.certified_data)) <= CertifiedDataMax ]_vars

\* C22: the certificate is absent exactly when the certified data is; when they are
\* there, the data is the payload set last and the certificate, which
\* data_certificate() returns, is sign of that payload; get_certified_data and
\* data_certificate change neither.
C22_CertificateOfLastPayload ==
    /\ is_some(ctx.certificate) <=> is_some(ctx.certified_data)
    /\ is_some(ctx.certified_data) <=> is_some(hist.certified)
    /\ is_some(hist.certified)
         => /\ ctx.certified_data = hist.certified
            /\ ctx.certificate = Some(sign(unwrap(hist.certified)))
    /\ last.op = "data_certificate" => last.ret = ctx.certificate
    /\ last.op = "get_certified_data" => last.ret = ctx.certified_data

\* the certificate read is the one of a payload that replaced the builder's
C22_Witness ==
    /\ last.op = "data_certificate"
    /\ ctx.watcher.called_set_certified_data
    /\ last.ret = Some(sign(<<1, 2, 3>>))
    /\ last.ret # Some(sign(<<0, 1, 2, 3, 4, 5>>))

\* C23: watch() replaces the Watcher by a new one: every flag is false, no type tag
\* is marked modified, no call is on record (call_count, cycles_sent, cycles_consumed
\* and cycles_refunded are 0); every other field of the context (identity, balance,
\* caller, available cycles, last refund, reply-callback mode, typed storage, stable
\* buffer, certified data, certificate, handlers) is as it was.
C23_WatchResets ==
    [][ last'.op = "watch"
          => /\ \A op \in FlagOps : ~Flag(ctx'.watcher, op)
             /\ \A T \in TypeIds : ~is_modified(ctx'.watcher, T)
             /\ call_count(ctx'.watcher) = 0
             /\ Watcher_cycles_sent(ctx'.watcher) = Value(0)
             /\ Watcher_cycles_consumed(ctx'.watcher) = Value(0)
             /\ Watcher_cycles_refunded(ctx'.watcher) = Value(0)
             /\ ctx' = [ctx EXCEPT !.watcher = ctx'.watcher]
             /\ panicked' = panicked ]_vars

\* watch() ran after a call and other operations, on a context in reply-callback
\* mode that holds a refund, data, a stable buffer, certified data and a handler
C23_Witness ==
    /\ last.op = "watch"
    /\ hist.ops = MaxOps
    /\ hist.calls_total > 0
    /\ call_count(ctx.watcher) = 0
    /\ ctx.is_reply_callback_mode
    /\ ctx.cycles_refunded > 0
    /\ ctx.storage # <<>>
    /\ ctx.stable # <<>>
    /\ is_some(ctx.certified_data)
    /\ ctx.handlers # <<>>

\* C25: while the test runs, each called_* flag is true exactly when its operation
\* was invoked on the context since the last watch() (the builder's with_stable goes
\* through stable_store); a flag that is true stays true until the next watch().
C25_Flags ==
    [][ /\ panicked' = NoPanic
             => \A op \in FlagOps : Flag(ctx'.watcher, op) <=> op \in hist'.invoked
        /\ last'.op # "watch"
             => \A op \in FlagOps : Flag(ctx.watcher, op) => Flag(ctx'.watcher, op) ]_vars

\* two operations ran since the last watch(), which came after another operation:
\* their flags are set and no other
C25_Witness ==
    /\ panicked = NoPanic
    /\ hist.invoked = {"msg_cycles_refunded", "data_certificate"}
    /\ hist.ops = MaxOps
    /\ \A op \in FlagOps : Flag(ctx.watcher, op) <=> op \in hist.invoked

\* C24: after any sequence of outbound calls the Watcher's sums agree,
\* cycles_sent() = cycles_consumed() + cycles_refunded(), and the cycles_consumed of
\* every call on record, cycles_sent - cycles_refunded, is computed without underflow.
C24_LedgerSums ==
    Running
      => /\ \A k \in 1 .. call_count(ctx.watcher) :
              WatcherCall_cycles_consumed(get_call(ctx.watcher, k - 1)).panic = NoPanic
         /\ Watcher_cycles_consumed(ctx.watcher).panic = NoPanic
         /\ Watcher_cycles_sent(ctx.watcher).ret =
              Watcher_cycles_consumed(ctx.watcher).ret
                + Watcher_cycles_refunded(ctx.watcher).ret

UnwrapNone == "called Option::unwrap() on a None value"

\* what Canister h makes of a perform(from, cycles, target, method) that left it as
\* h2, returned `ret` and logged `log`
Dispatched(h, h2, from, cycles, target, method, ret, log, fatal) ==
    IF method \notin MethodNames(h) /\ ~is_some(h.default)
    THEN fatal = UnwrapNone
    ELSE /\ log[1].ev = "perform"
         /\ log[1].path = <<IF method \in MethodNames(h) THEN method ELSE DefaultKey>>
         /\ fatal # UnwrapNone
         /\ fatal = NoPanic
              => /\ h2.context.caller = from
                 /\ SubHandler(h, log[1].path[1]) = RawHandlerRaw(SeeingClosure)
                      => ret = Ok(<<from, h.id, cycles>>)
                 /\ SubHandler(h, log[1].path[1]).kind = "Method"
                      => ret = Ok(EncodeUnit)

\* the events of call_raw's log from the perform on the chain's handler on
FromPerform(log) ==
    SubSeq(log, 1 + CHOOSE k \in 1 .. Len(log) : log[k].ev = "perform" /\ log[k].path = <<>>,
           Len(log))

\* C26: Canister.perform sets the caller of the owned context to the incoming caller
\* and its available cycles to the cycles sent, then delegates to the sub-handler
\* registered under the method name if there is one and else to the default, and
\* panics if there is neither; a sub-handler reached through call_raw sees the
\* identity of the calling context as the caller.  (What the sub-handler sees is
\* what a closure reading caller(), id() and msg_cycles_available() returns.)
C26_CanisterPerform ==
    [][ /\ (last'.op = "perform" /\ unwrap(building).kind = "Canister")
             => Dispatched(unwrap(building), unwrap(building'), last'.from, last'.cycles,
                           last'.canister_id, last'.method, last'.ret, last'.log,
                           panicked')
        /\ (last'.op = "call_raw" /\ OnlyCanister(ctx) /\ last'.performer = 0)
             => Dispatched(ctx.handlers[1], ctx'.handlers[1], ctx.id, last'.cycles,
                           last'.canister_id, last'.method, last'.ret,
                           FromPerform(last'.log), panicked') ]_vars

\* a call made through call_raw to a method that is not registered went to the
\* default, a closure, which saw the calling context's identity as the caller and
\* the cycles sent as available
C26_Witness ==
    /\ CallReturned
    /\ OnlyCanister(ctx)
    /\ last.method = Other
    /\ MethodNames(ctx.handlers[1]) = {DepositCycles}
    /\ last.cycles = MaxCycles
    /\ last.ret = Ok(<<ctx.id, ManagementCanister, MaxCycles>>)
    /\ ctx.handlers[1].context.caller = ctx.id

RefundMismatch == "assertion failed: res.1 == ctx.msg_cycles_available()"

\* what a sub-handler leaves available on the owned context, entered with `cycles`
LeftBy(sub, cycles) ==
    CASE sub.kind = "Method" -> LeftAfter(sub.atoms, Len(sub.atoms), cycles)
      [] sub.kind = "Custom" -> cycles
      [] sub.kind = "RawHandler" ->
           IF sub.handler.ops = <<>> THEN cycles
           ELSE IF sub.handler.ops[1].op = "msg_cycles_accept"
                THEN cycles - Min(sub.handler.ops[1].n, cycles)
                ELSE IF sub.handler.ops[1].op = "update_msg_cycles"
                     THEN sub.handler.ops[1].n
                     ELSE cycles

\* what Canister h, left as h2, makes of the refund of the sub-handler it delegated
\* a call of `cycles` to
Settled(h, h2, cycles, method, refund, fatal) ==
    LET sub == Canister_sub(h, method) IN
    /\ fatal = NoPanic
         => /\ h2.context.cycles = 0
            /\ refund = LeftBy(sub, cycles)
    /\ sub.kind = "Custom"
         => (fatal = RefundMismatch <=> sub.refund # cycles)
    /\ sub.kind \in {"Method", "RawHandler"} => fatal # RefundMismatch

Delegating(h, method) == method \in MethodNames(h) \/ is_some(h.default)

\* C27: after every completed Canister.perform the owned context has 0 cycles
\* available and the refund returned is what the owned context had available when
\* the sub-handler returned; a sub-handler that reports another refund makes
\* Canister.perform panic, which a Method or a RawHandler never does.
C27_CanisterSettles ==
    [][ /\ (/\ last'.op = "perform"
            /\ unwrap(building).kind = "Canister"
            /\ Delegating(unwrap(building), last'.method))
             => Settled(unwrap(building), unwrap(building'), last'.cycles, last'.method,
                        last'.refunded, panicked')
        /\ (last'.op = "call_raw" /\ OnlyCanister(ctx) /\ last'.performer = 0)
             => Settled(ctx.handlers[1], ctx'.handlers[1], last'.cycles, last'.method,
                        last'.refunded, panicked') ]_vars

\* a Scripted sub-handler took part of the cycles of a call and refunded the rest,
\* and the owned context is left with none
C27_Witness ==
    /\ CallReturned
    /\ OnlyCanister(ctx)
    /\ Canister_sub(ctx.handlers[1], last.method).kind = "Method"
    /\ last.cycles = MaxCycles
    /\ 0 < last.refunded
    /\ last.refunded < last.cycles
    /\ ctx.handlers[1].context.cycles = 0
    /\ ctx.handlers[1].context.balance > 0

\* every sub-handler of Canister h is a Scripted handler
ScriptedOnly(h) ==
    /\ \A n \in MethodNames(h) : h.methods[n].kind = "Method"
    /\ is_some(h.default) => unwrap(h.default).kind = "Method"

\* C28: the owned context of a Canister persists across calls.  For a Canister with
\* Scripted sub-handlers installed on a context, after every completed call the
\* Canister's balance is the balance it was installed with plus the sum over the
\* calls of (cycles sent - refund), each call adds its (cycles sent - refund) to it,
\* and the balance of the caller plus the balance of the Canister is what it was
\* before the call.
C28_OwnedBalance ==
    [][ (/\ last'.op = "call_raw"
         /\ panicked' = NoPanic
         /\ OnlyCanister(ctx)
         /\ ScriptedOnly(ctx.handlers[1]))
          => /\ ctx'.handlers[1].context.balance =
                  ctx.handlers[1].context.balance + (last'.cycles - last'.refunded)
             /\ ctx'.balance + ctx'.handlers[1].context.balance =
                  ctx.balance + ctx.handlers[1].context.balance
             /\ ctx'.handlers[1].context.balance =
                  hist'.owned0 + Watcher_cycles_consumed(ctx'.watcher).ret
             /\ ctx'.balance + ctx'.handlers[1].context.balance =
                  hist'.balance0 + hist'.owned0 ]_vars

\* the second call to a Canister that had taken cycles before it was installed and
\* took some in each of the two calls
C28_Witness ==
    /\ CallReturned
    /\ OnlyCanister(ctx)
    /\ ScriptedOnly(ctx.handlers[1])
    /\ call_count(ctx.watcher) = 2
    /\ hist.owned0 > 0
    /\ last.cycles > last.refunded
    /\ ctx.handlers[1].context.balance > hist.owned0 + (last.cycles - last.refunded)

\* the chain is one RawHandler
OnlyRawHandler(c) == Len(c.handlers) = 1 /\ c.handlers[1].kind = "RawHandler"

\* what RawHandler h, given no context, makes of perform(from, cycles, target, ..)
Fresh(h, from, cycles, target, ret, refund, fatal) ==
    /\ fatal = NoPanic
    /\ refund = LeftBy(h, cycles)
    /\ h.handler = SeeingClosure => ret = Ok(<<from, target, cycles>>) /\ refund = cycles
    /\ h.handler = RejectingClosure => ret = RejectingClosure.res /\ refund = cycles
    /\ \A k \in Amounts :
         (h.handler = AcceptingClosure(k) /\ k <= cycles) => refund = cycles - k

\* C30: a RawHandler given no context runs its closure on a new context whose caller
\* is the calling identity, whose available cycles are the cycles sent and whose
\* identity is the target, and reports what is left available on it as the refund:
\* cycles sent - k for a closure that accepts k <= cycles sent, everything for one
\* that accepts nothing.  The calling context is not the one the closure works on.
C30_ClosureOnFreshContext ==
    [][ /\ (last'.op = "perform" /\ unwrap(building).kind = "RawHandler")
             => /\ Fresh(unwrap(building), last'.from, last'.cycles, last'.canister_id,
                         last'.ret, last'.refunded, panicked')
                /\ building' = building
        /\ (last'.op = "call_raw" /\ OnlyRawHandler(ctx) /\ last'.cycles <= ctx.balance)
             => /\ Fresh(ctx.handlers[1], ctx.id, last'.cycles, last'.canister_id,
                         last'.ret, last'.refunded, panicked')
                /\ \A op \in FlagOps : Flag(ctx'.watcher, op) = Flag(ctx.watcher, op)
                /\ ctx'.handlers = ctx.handlers ]_vars

\* a closure reached through call_raw saw the calling context's identity as the
\* caller, the target as its own identity and the cycles sent, and refunded them all
C30_Witness ==
    /\ CallReturned
    /\ OnlyRawHandler(ctx)
    /\ last.canister_id = Bob
    /\ last.ret = Ok(<<ctx.id, Bob, MaxCycles>>)
    /\ last.refunded = MaxCycles

\* C29: after any sequence of completed outbound calls and msg_cycles_accept
\* operations on a context, with no update_balance and no watch() between them, its
\* balance is the balance it started with, plus the amounts msg_cycles_accept
\* returned, minus Watcher.cycles_consumed().
C29_BalanceLedger ==
    Running
      => /\ Watcher_cycles_consumed(ctx.watcher).panic = NoPanic
         /\ ctx.balance = hist.balance0 + hist.accepted
                            - Watcher_cycles_consumed(ctx.watcher).ret

ArgumentsMismatch == "assertion failed: expected_args == args_raw"

\* handler h is a Scripted handler that expects other arguments than args_raw
Mismatching(h, args_raw) ==
    /\ h.kind = "Method"
    /\ is_some(h.expected_args)
    /\ unwrap(h.expected_args) # args_raw

\* the Scripted handler that performs a call of `method` handed to h
Reached(h, method) ==
    IF h.kind = "Canister" /\ Delegating(h, method) THEN Canister_sub(h, method) ELSE h

\* C31: a Scripted handler with an expected-argument sequence panics when the raw
\* arguments differ from it, before any of its atoms runs: the context it is given
\* is left as it was (nothing accepted), the Canister it is a sub-handler of keeps
\* its balance and still has the cycles sent available, and the calling context
\* records no call.  With the expected arguments it does not panic on them.
C31_ExpectedArguments ==
    [][ /\ last'.op = "perform_on"
             => IF Mismatching(unwrap(building), last'.args_raw)
                THEN panicked' = ArgumentsMismatch /\ ctx' = ctx
                ELSE panicked' # ArgumentsMismatch
        /\ (last'.op = "call_raw" /\ last'.performer # NoPerformer)
             => IF Mismatching(Reached(ctx.handlers[last'.performer + 1], last'.method),
                               last'.args_raw)
                THEN /\ panicked' = ArgumentsMismatch
                     /\ ctx'.watcher = ctx.watcher
                     /\ ctx.handlers[last'.performer + 1].kind = "Canister"
                          => /\ ctx'.handlers[last'.performer + 1].context.balance
                                  = ctx.handlers[last'.performer + 1].context.balance
                             /\ ctx'.handlers[last'.performer + 1].context.cycles
                                  = last'.cycles
                ELSE panicked' # ArgumentsMismatch ]_vars

\* a Canister whose sub-handler had taken the cycles of a call with the expected
\* arguments was then called with other arguments: the test panicked, the
\* Canister's balance and the one call recorded are those of the first call
C31_Witness ==
    /\ panicked = ArgumentsMismatch
    /\ last.op = "call_raw"
    /\ last.args_raw = ArgsB
    /\ last.cycles = MaxCycles
    /\ ctx.handlers[1].kind = "Canister"
    /\ ctx.handlers[1].context.balance = 1
    /\ ctx.handlers[1].context.cycles = MaxCycles
    /\ call_count(ctx.watcher) = 1

\* C32: msg_cycles_refunded() returns 0 before any outbound call has completed and
\* afterwards the refund of the outbound call of the context that completed last,
\* whatever the test did in between: more calls, watch(), msg_cycles_accept, store,
\* stable_store or another read.
C32_LastRefund ==
    [][ last'.op = "msg_cycles_refunded"
          => last'.ret = IF hist.calls_total = 0 THEN 0 ELSE hist.refunded ]_vars

\* two calls completed with different refunds, and the read returned the second
C32_Witness ==
    /\ Running
    /\ last.op = "msg_cycles_refunded"
    /\ call_count(ctx.watcher) = 2
    /\ get_call(ctx.watcher, 0).cycles_refunded > get_call(ctx.watcher, 1).cycles_refunded
    /\ get_call(ctx.watcher, 1).cycles_refunded > 0
    /\ last.ret = get_call(ctx.watcher, 1).cycles_refunded

\* the block ids of the buckets of a log
BlockIds(connections) == { connections[k].block_id : k \in 1 .. Len(connections) }

\* a step from the log `old` to the log `new` in which a bucket for block_id was
\* added to a full log: the bucket gone is the one at the back, no bucket has an
\* older block id than it had, and the others are the ones retained
Evicting(old, new, block_id) ==
    /\ Len(new) = MAX_BLOCK_HEIGHT
    /\ new[1].block_id = block_id
    /\ \A k \in 1 .. MAX_BLOCK_HEIGHT - 1 : new[k + 1].block_id = old[k].block_id
    /\ \A k \in 1 .. MAX_BLOCK_HEIGHT - 2 : new[k + 1] = old[k]
    /\ \A k \in 1 .. MAX_BLOCK_HEIGHT : old[MAX_BLOCK_HEIGHT].block_id <= old[k].block_id
    /\ \A b \in BlockIds(new) : b >= old[MAX_BLOCK_HEIGHT].block_id

\* C33: the connection log never holds more than MAX_BLOCK_HEIGHT buckets, and a
\* send_raw that adds the bucket of a new block id to a full log removes the bucket
\* with the oldest block id and keeps the others (the clock never goes back).
C33_BoundedLog ==
    /\ [](Len(unwrap(building).connections) <= MAX_BLOCK_HEIGHT)
    /\ [][ (/\ last'.op = "send_raw"
            /\ Len(unwrap(building).connections) = MAX_BLOCK_HEIGHT
            /\ last'.block_id \notin BlockIds(unwrap(building).connections))
             => Evicting(unwrap(building).connections, unwrap(building').connections,
                         last'.block_id) ]_vars

\* the last of MaxSends sends found the log full: the log holds the buckets of the
\* MAX_BLOCK_HEIGHT blocks sent in last, the one of the first block is gone
C33_Witness ==
    /\ last.op = "send_raw"
    /\ hist.calls_total = MaxSends
    /\ Len(unwrap(building).connections) = MAX_BLOCK_HEIGHT
    /\ Cardinality(BlockIds(unwrap(building).connections)) = MAX_BLOCK_HEIGHT
    /\ unwrap(building).connections[1].block_id = last.block_id
    /\ unwrap(building).connections[MAX_BLOCK_HEIGHT].block_id
         = last.block_id - (MAX_BLOCK_HEIGHT - 1) * BLOCK_PERIOD_SECONDS

\* bucket k of the log holds message m for its connection
Holds(connections, k, m) ==
    /\ m.connection_id \in DOMAIN connections[k].tree
    /\ \E i \in 1 .. Len(connections[k].tree[m.connection_id]) :
         connections[k].tree[m.connection_id][i] = m.message

\* C34: with send_raw called at block ids that never decrease, the log has at most
\* one bucket per block id, every message in a bucket was sent in the block the
\* bucket is tagged with, and the messages of the last send_raw are in the bucket
\* of the block id current at that call.
C34_OneBucketPerBlock ==
    last.op = "send_raw"
      => /\ \A j, k \in 1 .. Len(unwrap(building).connections) :
              j # k => unwrap(building).connections[j].block_id
                         # unwrap(building).connections[k].block_id
         /\ \A k \in 1 .. Len(unwrap(building).connections) :
              \A c \in DOMAIN unwrap(building).connections[k].tree :
                \A i \in 1 .. Len(unwrap(building).connections[k].tree[c]) :
                  unwrap(building).connections[k].tree[c][i]
                    = <<unwrap(building).connections[k].block_id>>
         /\ \A n \in 1 .. Len(last.messages) :
              \E k \in 1 .. Len(unwrap(building).connections) :
                /\ unwrap(building).connections[k].block_id = last.block_id
                /\ Holds(unwrap(building).connections, k, last.messages[n])

====
